---- MODULE Spec2Model ----
(***************************************************************************)
(* Work distribution engine of libbiomeval (MPI framework):                *)
(*   - RecordStoreDistributor: createWorkPackage, checkpointSave,          *)
(*     checkpointRestore over a sequenced record store                     *)
(*     (be_mpi_recordstoredistributor.cpp, be_io_filerecstore_impl.cpp);   *)
(*   - Receiver: start, requestWorkPackages, sendWorkPackage, shutdown and *)
(*     the worker loop PackageWorker::workerMain (be_mpi_receiver.cpp).    *)
(***************************************************************************)
EXTENDS Integers, Sequences, FiniteSets, TLC

(***************************************************************************)
(* Bounds of the model.                                                    *)
(***************************************************************************)
\* Largest number of records in the input record store.
MaxRecords == 3
\* Largest configured chunk size.
MaxChunk == 2
\* createWorkPackage calls explored in one Distributor run.
MaxCalls == 3
\* Read failures of the record store explored in one Distributor run.
MaxFailures == 1
\* Records of the store in a job of the Receiver, one key per package.
JobRecords == 3
\* Local worker processes of the Receiver (workers per node).
NumWorkers == 1
\* Workers per node, and records of the store, when the start of the workers
\* is explored with more than one of them.
StartWorkers == 2
StartRecords == 2
\* Worker slots of a ForkManager on its own, process IDs of the system, and
\* forks of one run, when the reuse of a worker slot is examined.
NumSlots == 2
MaxPids == 2
MaxForks == 3
\* Records packed into one package, longest key and longest value, when the
\* package layout is explored on its own.
MaxPairs == 2
MaxKeyLen == 2
MaxValueLen == 2
\* uint64_t arithmetic is modular.  TLC integers are 32 bits wide, so the
\* counter is kept modulo CounterMod instead of 2^64; every count of the
\* model is far below it, so a wrap shows as a value near CounterMod.
CounterMod == 65536

\* Size the package buffer is created with.
InitialBufferSize == 16384

(***************************************************************************)
(* State of the Distributor (rank 0) and of its record store.              *)
(***************************************************************************)
VARIABLES
    storeCount,          \* RecordStore::getCount()
    chunkSize,           \* Resources::getChunkSize()
    includeValues,       \* RecordStoreDistributor::_includeValues
    cursorState,         \* RecordStore cursor: "START" or "NEXT"
    cursorPos,           \* FileRecordStore::Impl::_cursorPos
    recordsRemaining,    \* RecordStoreDistributor::_recordsRemaining
    lastDistributedKey,  \* RecordStoreDistributor::_lastDistributedKey
    chk,                 \* the checkpoint properties file
    workPackage,         \* the package of the last createWorkPackage call
    distOp,              \* last Distributor operation and how it ended
    resumed,             \* this run follows an earlier run of the job
    calls,               \* createWorkPackage calls of this run
    failures,            \* read failures of the record store in this run
    restoredMidRun,      \* a restore returned after a package of this run
    restored,            \* a restore returned in this run
    sumElements,         \* sum of numElements over this run's packages
    okReads              \* keys successfully read in this run

distVars ==
    <<storeCount, chunkSize, includeValues, cursorState, cursorPos,
      recordsRemaining, lastDistributedKey, chk, workPackage, distOp, resumed,
      calls, failures, restoredMidRun, restored, sumElements, okReads>>

\* What the Distributor's operations leave alone: the store and the
\* configuration.
distConfig ==
    <<storeCount, chunkSize, includeValues>>

(***************************************************************************)
(* The record store: record i of the store has a key and a value.  Keys    *)
(* have length 1 or 2, values length 0, 1 or 2 (bytes are numbers).        *)
(***************************************************************************)
KeyOf(i) ==
    [j \in 1..((i % 2) + 1) |-> 64 + i]

ValueOf(i) ==
    [j \in 1..(i % 3) |-> 100 + i]

EmptyKey == << >>

\* uint64_t subtraction.
SubU64(a, b) ==
    (a - b) % CounterMod

RECURSIVE LEBytes(_, _)
\* The w bytes of an unsigned integer in memory (little endian).
LEBytes(n, w) ==
    IF w = 0 THEN << >> ELSE <<n % 256>> \o LEBytes(n \div 256, w - 1)

\* A freshly created buffer of the given size: nothing of it is initialised.
NewBuffer(size) ==
    [size |-> size, bytes |-> << >>]

\* The record written with a 32-bit value size.
fillBufferWithKeyAndValue_ValueSize32(buf, key, value, index) ==
    LET keyLength == Len(key)
        valueSize == Len(value)
        neededSpace == index + 4 + keyLength + 4 + valueSize
    IN  [buf   |-> [size  |-> neededSpace,
                    bytes |-> SubSeq(buf.bytes, 1, index)
                                \o LEBytes(keyLength, 4)
                                \o LEBytes(valueSize, 4)
                                \o key
                                \o (IF valueSize # 0 THEN value ELSE << >>)],
         index |-> neededSpace]

\* fillBufferWithKeyAndValue: resize to the needed space, then write the key
\* length (uint32), the value size (uint64), the key and the value at index.
fillBufferWithKeyAndValue(buf, key, value, index) ==
    LET keyLength == Len(key)
        valueSize == Len(value)
        neededSpace == index + 4 + keyLength + 8 + valueSize
    IN  [buf   |-> [size  |-> neededSpace,
                    bytes |-> SubSeq(buf.bytes, 1, index)
                                \o LEBytes(keyLength, 4)
                                \o LEBytes(valueSize, 8)
                                \o key
                                \o (IF valueSize # 0 THEN value ELSE << >>)],
         index |-> neededSpace]

(***************************************************************************)
(* FileRecordStore::Impl::i_sequence.  cur is [state, pos]; fail is the    *)
(* failure the call meets: "dir" (the store directory cannot be opened or  *)
(* an entry not stat'ed, before the cursor moves), "data" (the record's    *)
(* file cannot be read, after the cursor moved) or "none".  The result     *)
(* tells whether the call returned (ok), the record, and the cursor the    *)
(* call leaves behind.                                                     *)
(***************************************************************************)
i_sequence(returnData, cur, fail) ==
    LET pos == IF cur.state = "START" THEN 1 ELSE cur.pos
    IN  IF fail = "dir"
        THEN [ok |-> FALSE, key |-> EmptyKey, data |-> << >>, cur |-> cur]
        ELSE IF pos > storeCount
        THEN [ok |-> FALSE, key |-> EmptyKey, data |-> << >>,
              cur |-> [state |-> cur.state, pos |-> pos]]
        ELSE IF returnData /\ fail = "data"
        THEN [ok |-> FALSE, key |-> EmptyKey, data |-> << >>,
              cur |-> [state |-> "NEXT", pos |-> pos + 1]]
        ELSE [ok |-> TRUE, key |-> KeyOf(pos),
              data |-> IF returnData THEN ValueOf(pos) ELSE << >>,
              cur |-> [state |-> "NEXT", pos |-> pos + 1]]

\* The failures a read can meet: a data failure needs the data to be read.
FailureKinds(returnData) ==
    IF returnData THEN {"none", "dir", "data"} ELSE {"none", "dir"}

\* The number of failures among the outcomes of a call's reads.
NumFailures(fails) ==
    Cardinality({n \in DOMAIN fails : fails[n] # "none"})

\* FileRecordStore::Impl::setCursorAtKey: _cursorPos is set to the position
\* of the key; an unknown (or invalid) key raises.
setCursorAtKey(key, cur) ==
    IF \E i \in 1..storeCount : KeyOf(i) = key
    THEN [ok |-> TRUE,
          cur |-> [state |-> cur.state,
                   pos |-> CHOOSE i \in 1..storeCount : KeyOf(i) = key]]
    ELSE [ok |-> FALSE, cur |-> cur]

Cursor ==
    [state |-> cursorState, pos |-> cursorPos]

\* The read loop with realKeyCount incremented outside the try block: a key
\* whose read failed is counted too.
RECURSIVE PullKeys_CountFailures(_, _, _, _)
PullKeys_CountFailures(n, keyCount, fails, acc) ==
    IF n > keyCount THEN acc
    ELSE LET r == i_sequence(includeValues, acc.cur, fails[n])
         IN  IF r.ok
             THEN LET f == fillBufferWithKeyAndValue(acc.buf, r.key, r.data,
                                                     acc.index)
                  IN  PullKeys_CountFailures(n + 1, keyCount, fails,
                          [cur |-> r.cur, lastKey |-> r.key, buf |-> f.buf,
                           index |-> f.index,
                           realKeyCount |-> acc.realKeyCount + 1,
                           failed |-> acc.failed,
                           entries |-> Append(acc.entries,
                                              [key |-> r.key, value |-> r.data])])
             ELSE PullKeys_CountFailures(n + 1, keyCount, fails,
                          [acc EXCEPT !.cur = r.cur,
                                      !.failed = acc.failed + 1,
                                      !.realKeyCount = acc.realKeyCount + 1])

\* The read loop with _lastDistributedKey advanced to the key attempted, read
\* or not.
RECURSIVE PullKeys_TrackAttempts(_, _, _, _)
PullKeys_TrackAttempts(n, keyCount, fails, acc) ==
    IF n > keyCount THEN acc
    ELSE LET r == i_sequence(includeValues, acc.cur, fails[n])
         IN  IF r.ok
             THEN LET f == fillBufferWithKeyAndValue(acc.buf, r.key, r.data,
                                                     acc.index)
                  IN  PullKeys_TrackAttempts(n + 1, keyCount, fails,
                          [cur |-> r.cur, lastKey |-> r.key, buf |-> f.buf,
                           index |-> f.index,
                           realKeyCount |-> acc.realKeyCount + 1,
                           failed |-> acc.failed,
                           entries |-> Append(acc.entries,
                                              [key |-> r.key, value |-> r.data])])
             ELSE PullKeys_TrackAttempts(n + 1, keyCount, fails,
                          [acc EXCEPT !.cur = r.cur,
                                      !.failed = acc.failed + 1,
                                      !.lastKey = KeyOf(acc.cur.pos)])

(***************************************************************************)
(* The read loop of createWorkPackage, iterations n..keyCount.  fails[n]   *)
(* is the failure the read of iteration n meets.  acc carries the cursor,  *)
(* _lastDistributedKey, the buffer, its index, and realKeyCount; entries   *)
(* are the (key, value) pairs packed, failed the number of reads that      *)
(* raised.                                                                 *)
(***************************************************************************)
RECURSIVE PullKeys(_, _, _, _)
PullKeys(n, keyCount, fails, acc) ==
    IF n > keyCount THEN acc
    ELSE LET r == i_sequence(includeValues, acc.cur, fails[n])
         IN  IF r.ok
             THEN LET f == fillBufferWithKeyAndValue(acc.buf, r.key, r.data,
                                                     acc.index)
                  IN  PullKeys(n + 1, keyCount, fails,
                          [cur |-> r.cur, lastKey |-> r.key, buf |-> f.buf,
                           index |-> f.index,
                           realKeyCount |-> acc.realKeyCount + 1,
                           failed |-> acc.failed,
                           entries |-> Append(acc.entries,
                                              [key |-> r.key, value |-> r.data])])
             ELSE PullKeys(n + 1, keyCount, fails,
                          [acc EXCEPT !.cur = r.cur,
                                      !.failed = acc.failed + 1])

\* The state a Distributor operation reads and writes.
DistState ==
    [cur |-> Cursor, remaining |-> recordsRemaining,
     lastKey |-> lastDistributedKey]

\* createWorkPackage with a target of one key whatever the chunk size.
createWorkPackage_OneKey(d, fails) ==
    LET packageData == NewBuffer(InitialBufferSize)
    IN  IF d.remaining = 0
        THEN [wp |-> [numElements |-> 0, data |-> packageData,
                      entries |-> << >>],
              d |-> d, keyCount |-> 0, reads |-> 0, failed |-> 0]
        ELSE LET keyCount == 1
                 res == PullKeys(1, keyCount, fails,
                            [cur |-> d.cur, lastKey |-> d.lastKey,
                             buf |-> packageData, index |-> 0,
                             realKeyCount |-> 0, failed |-> 0,
                             entries |-> << >>])
             IN  [wp |-> [numElements |-> res.realKeyCount,
                          data |-> res.buf, entries |-> res.entries],
                  d |-> [cur |-> res.cur,
                         remaining |-> SubU64(d.remaining, keyCount),
                         lastKey |-> res.lastKey],
                  keyCount |-> keyCount, reads |-> Len(res.entries),
                  failed |-> res.failed]

\* createWorkPackage with the counter decremented after the read loop, by
\* the number of keys that were read.
createWorkPackage_LazyDecrement(d, fails) ==
    LET packageData == NewBuffer(InitialBufferSize)
    IN  IF d.remaining = 0
        THEN [wp |-> [numElements |-> 0, data |-> packageData,
                      entries |-> << >>],
              d |-> d, keyCount |-> 0, reads |-> 0, failed |-> 0]
        ELSE LET keyCount == IF d.remaining > chunkSize
                             THEN chunkSize ELSE d.remaining
                 res == PullKeys(1, keyCount, fails,
                            [cur |-> d.cur, lastKey |-> d.lastKey,
                             buf |-> packageData, index |-> 0,
                             realKeyCount |-> 0, failed |-> 0,
                             entries |-> << >>])
             IN  [wp |-> [numElements |-> res.realKeyCount,
                          data |-> res.buf, entries |-> res.entries],
                  d |-> [cur |-> res.cur,
                         remaining |-> SubU64(d.remaining, res.realKeyCount),
                         lastKey |-> res.lastKey],
                  keyCount |-> keyCount, reads |-> Len(res.entries),
                  failed |-> res.failed]

(***************************************************************************)
(* RecordStoreDistributor::createWorkPackage as a function of the          *)
(* Distributor's state d and the failures its reads meet: the package, the *)
(* new state, the target count, the number of keys read and the number of  *)
(* reads that raised.                                                      *)
(***************************************************************************)
createWorkPackage(d, fails) ==
    LET packageData == NewBuffer(InitialBufferSize)
    IN  IF d.remaining = 0
        THEN [wp |-> [numElements |-> 0, data |-> packageData,
                      entries |-> << >>],
              d |-> d, keyCount |-> 0, reads |-> 0, failed |-> 0]
        ELSE LET keyCount == IF d.remaining > chunkSize
                             THEN chunkSize ELSE d.remaining
                 res == PullKeys(1, keyCount, fails,
                            [cur |-> d.cur, lastKey |-> d.lastKey,
                             buf |-> packageData, index |-> 0,
                             realKeyCount |-> 0, failed |-> 0,
                             entries |-> << >>])
             IN  [wp |-> [numElements |-> res.realKeyCount,
                          data |-> res.buf, entries |-> res.entries],
                  d |-> [cur |-> res.cur,
                         remaining |-> SubU64(d.remaining, keyCount),
                         lastKey |-> res.lastKey],
                  keyCount |-> keyCount, reads |-> Len(res.entries),
                  failed |-> res.failed]

\* The iterations of a call's read loop: none when no record remains.
Iterations(d) ==
    IF d.remaining = 0 THEN {}
    ELSE 1..(IF d.remaining > chunkSize THEN chunkSize ELSE d.remaining)

\* One createWorkPackage call of the Distributor.
CreateWorkPackage ==
    /\ calls < MaxCalls
    /\ \E fails \in [Iterations(DistState) -> FailureKinds(includeValues)] :
        LET r == createWorkPackage(DistState, fails)
        IN  /\ failures + NumFailures(fails) <= MaxFailures
            /\ failures' = failures + r.failed
            /\ workPackage' = r.wp
            /\ cursorState' = r.d.cur.state
            /\ cursorPos' = r.d.cur.pos
            /\ recordsRemaining' = r.d.remaining
            /\ lastDistributedKey' = r.d.lastKey
            /\ sumElements' = sumElements + r.wp.numElements
            /\ okReads' = okReads + r.reads
            /\ distOp' = [op |-> "createWorkPackage", raised |-> FALSE,
                          keyCount |-> r.keyCount]
    /\ calls' = calls + 1
    /\ UNCHANGED <<distConfig, chk, resumed, restoredMidRun, restored>>

\* The reason a checkpoint is saved with (its words): the string is copied
\* into the file as it is.
SaveReasons ==
    {<<"Shutdown">>}

\* A checkpoint whose Num Keys is the count of the records that remain.
CheckpointRecord_Remaining(reason) ==
    [present |-> TRUE,
     reason |-> reason,
     lastKey |-> lastDistributedKey,
     numKeys |-> recordsRemaining]

\* checkpointSave: the properties set before the file is synced.
CheckpointRecord(reason) ==
    [present |-> TRUE,
     reason |-> reason,
     lastKey |-> lastDistributedKey,
     numKeys |-> SubU64(storeCount, recordsRemaining)]

\* RecordStoreDistributor::checkpointSave; syncFails: the properties file
\* cannot be written, which is logged and swallowed.
CheckpointSave ==
    /\ \E reason \in SaveReasons, syncFails \in BOOLEAN :
        /\ chk' = IF syncFails THEN chk ELSE CheckpointRecord(reason)
        /\ distOp' = [op |-> "checkpointSave", raised |-> FALSE,
                      keyCount |-> 0, reason |-> reason,
                      synced |-> ~syncFails]
    /\ UNCHANGED <<distConfig, cursorState, cursorPos, recordsRemaining,
                   lastDistributedKey, workPackage, resumed, calls,
                   failures, restoredMidRun, restored, sumElements, okReads>>

\* A restore that logs a failure and returns, as checkpointSave does.
checkpointRestore_Swallow(d, file, fail) ==
    IF ~file.present THEN [raised |-> FALSE, d |-> d]
    ELSE LET s == setCursorAtKey(file.lastKey, d.cur)
         IN  IF ~s.ok THEN [raised |-> FALSE, d |-> d]
             ELSE LET r == i_sequence(TRUE, s.cur, fail)
                  IN  IF ~r.ok \/ fail = "count"
                      THEN [raised |-> FALSE, d |-> [d EXCEPT !.cur = r.cur]]
                      ELSE [raised |-> FALSE,
                            d |-> [d EXCEPT
                                     !.cur = r.cur,
                                     !.remaining =
                                         SubU64(d.remaining, file.numKeys)]]

\* A restore that repositions the cursor and leaves the counter alone.
checkpointRestore_CursorOnly(d, file, fail) ==
    IF ~file.present THEN [raised |-> TRUE, d |-> d]
    ELSE LET s == setCursorAtKey(file.lastKey, d.cur)
         IN  IF ~s.ok THEN [raised |-> TRUE, d |-> d]
             ELSE LET r == i_sequence(TRUE, s.cur, fail)
                  IN  [raised |-> ~r.ok, d |-> [d EXCEPT !.cur = r.cur]]

(***************************************************************************)
(* RecordStoreDistributor::checkpointRestore as a function of the state:   *)
(* the Last Key property is read, the cursor set at it, one record         *)
(* sequenced, and Num Keys subtracted from _recordsRemaining.  Any failure *)
(* is re-raised, with the state as the failing step left it.  fail is the  *)
(* failure the call meets after the cursor was set: of the read ("dir",    *)
(* "data"), or of the Num Keys property ("count": it cannot be read as an  *)
(* integer).                                                               *)
(***************************************************************************)
checkpointRestore(d, file, fail) ==
    IF ~file.present THEN [raised |-> TRUE, d |-> d]
    ELSE LET s == setCursorAtKey(file.lastKey, d.cur)
         IN  IF ~s.ok THEN [raised |-> TRUE, d |-> d]
             ELSE LET r == i_sequence(TRUE, s.cur, fail)
                  IN  IF ~r.ok \/ fail = "count"
                      THEN [raised |-> TRUE, d |-> [d EXCEPT !.cur = r.cur]]
                      ELSE [raised |-> FALSE,
                            d |-> [d EXCEPT
                                     !.cur = r.cur,
                                     !.remaining =
                                         SubU64(d.remaining, file.numKeys)]]

\* The counter has not wrapped: it is within the store's record count.
InRange ==
    recordsRemaining <= storeCount

\* One checkpointRestore call of the Distributor.  Restores are explored
\* until the counter wraps.
CheckpointRestore ==
    /\ InRange
    /\ \E fail \in FailureKinds(TRUE) \cup {"count"} :
        LET r == checkpointRestore(DistState, chk, fail)
        IN  /\ fail # "none" => failures < MaxFailures
            /\ failures' = failures + (IF fail # "none" THEN 1 ELSE 0)
            /\ cursorState' = r.d.cur.state
            /\ cursorPos' = r.d.cur.pos
            /\ recordsRemaining' = r.d.remaining
            /\ distOp' = [op |-> "checkpointRestore", raised |-> r.raised,
                          keyCount |-> 0]
            /\ restoredMidRun' = (restoredMidRun \/ (~r.raised /\ calls > 0))
            /\ restored' = (restored \/ ~r.raised)
    /\ UNCHANGED <<distConfig, lastDistributedKey, chk, workPackage, resumed,
                   calls, sumElements, okReads>>

\* The state of a newly constructed RecordStoreDistributor over a store of
\* n records: the store is opened (cursor at START), every record remains.
Constructed(n) ==
    [cur |-> [state |-> "START", pos |-> 1], remaining |-> n,
     lastKey |-> EmptyKey]

\* The Distributor process ends and the job is started again: a new
\* Distributor is constructed over the same record store and checkpoint file.
NewRun ==
    /\ ~resumed
    /\ resumed' = TRUE
    /\ cursorState' = Constructed(storeCount).cur.state
    /\ cursorPos' = Constructed(storeCount).cur.pos
    /\ recordsRemaining' = Constructed(storeCount).remaining
    /\ lastDistributedKey' = Constructed(storeCount).lastKey
    /\ workPackage' = [numElements |-> 0, data |-> NewBuffer(0),
                       entries |-> << >>]
    /\ distOp' = [op |-> "construct", raised |-> FALSE, keyCount |-> 0]
    /\ calls' = 0
    /\ failures' = 0
    /\ restoredMidRun' = FALSE
    /\ restored' = FALSE
    /\ sumElements' = 0
    /\ okReads' = 0
    /\ UNCHANGED <<distConfig, chk>>

(***************************************************************************)
(* The task protocol.  A status or a command travels as the integer value  *)
(* of its enumerator: as an int32 between the tasks, as the decimal string *)
(* of that integer between a worker and the Receiver.                      *)
(***************************************************************************)
TaskStatus == <<"OK", "Exit", "Failed", "RequestJobTermination">>

TaskCommand == <<"Continue", "Ignore", "Exit", "QuickExit", "TermExit">>

\* to_int_type of an enumerator of the enumeration e.
to_int_type(e, v) ==
    (CHOOSE i \in DOMAIN e : e[i] = v) - 1

\* to_enum of an integer.
to_enum(e, i) ==
    e[i + 1]

\* std::to_string of a small non-negative integer, as its digit characters.
to_string(i) ==
    IF i < 10 THEN <<48 + i>> ELSE <<48 + (i \div 10), 48 + (i % 10)>>

\* std::stoi of a string of one or two digit characters.
stoi(str) ==
    IF Len(str) = 1 THEN str[1] - 48 ELSE (str[1] - 48) * 10 + (str[2] - 48)

statusToMessage(taskStatus) ==
    to_string(to_int_type(TaskStatus, taskStatus))

messageToStatus(message) ==
    to_enum(TaskStatus, stoi(message))

commandToMessage(taskCommand) ==
    to_string(to_int_type(TaskCommand, taskCommand))

messageToCommand(message) ==
    to_enum(TaskCommand, stoi(message))

(***************************************************************************)
(* State of one Receiver (task N), of its worker processes, and of the     *)
(* Distributor's side of the conversation with it.                         *)
(***************************************************************************)
VARIABLES
    rpc,            \* where the Receiver is in start / requestWorkPackages /
                    \* sendWorkPackage / shutdown
    Exit,           \* MPI::Exit of the Receiver process
    QuickExit,      \* MPI::QuickExit of the Receiver process
    TermExit,       \* MPI::TermExit of the Receiver process
    status,         \* requestWorkPackages: status
    held,           \* the work package the Receiver holds
    target,         \* sendWorkPackage: worker
    shutStatus,     \* shutdown: taskStatus
    shutReason,     \* shutdown: reason
    shutLeft,       \* shutdown: iterations left of the stop loop
    ctrlToD,        \* Control messages in flight to the Distributor
    ctrlToR,        \* Control messages in flight to the Receiver
    dataToR,        \* Data messages in flight to the Receiver
    oob,            \* out-of-band messages in flight to the Receiver
    wpc,            \* per worker: where the process is in workerMain
    taskStatus,     \* per worker: workerMain: taskStatus
    outbox,         \* per worker: messages in the pipe to the Receiver
    inbox,          \* per worker: messages in the pipe from the Receiver
    stopRequested,  \* per worker: Worker::stopRequested()
    wExit,          \* per worker: an exit flag is set in the worker process
    isWorking,      \* per worker: ForkManager Status.isWorking
    wpkg,           \* per worker: the package being processed
    dpc,            \* where the Distributor is with this Receiver
    dStop,          \* the Distributor was asked to terminate the job
    dBarrier,       \* the Distributor has reached the shutdown barrier
    dExit,          \* the exit condition of the Distributor, sent out of band
    finalStatus,    \* the status sent after the shutdown barrier
    rjtAt,          \* package held when RequestJobTermination was read
    termPkg,        \* first package whose processing asked to terminate
    signalled,      \* signals broadcast to the workers
    sinceQuick,     \* requests and dispatches begun after QuickExit was set
    endedBy,        \* how the request loop was left
    killedBy,       \* why the workers were kill-signalled
    shutComm,       \* shutdown waited for a worker or stopped one
    rlog,           \* lines the Receiver has logged
    startup,        \* start(): how openLogsheet ended, the flag received,
                    \* the status answered, how performInitialization
                    \* ended, and the workers startWorkers started
    exitHeld,       \* package held while Exit alone was set
    sent,           \* packages written to a worker
    lastCmd,        \* the command received from the Distributor, until the
                    \* Receiver has acted on it
    dispatched,     \* the packages written to a worker, as they were held
    badRead,        \* per worker: the status other than OK that
                    \* sendWorkPackage has read from it
    wNonOK,         \* per worker: the statuses other than OK it has sent
    retry           \* the package held when this sendWorkPackage call read
                    \* a status other than OK and went on

VARIABLES
    wcStatus,       \* ForkManager::_wcStatus, per slot: Status{pid, isWorking}
    everWorked,     \* per slot: ForkWorkerController::everWorked()
    procs,          \* per process ID: free, running or zombie, and which
                    \* fork made the process
    forking,        \* startWorker between fork() and the Status record
    forks,          \* forks made so far
    slotFork,       \* per slot: the fork that started its latest worker
    forkSlot,       \* per fork: the slot it started a worker for
    lateReap        \* forks whose process was reaped after its slot had
                    \* been started again

forkVars ==
    <<wcStatus, everWorked, procs, forking, forks, slotFork, forkSlot,
      lateReap>>

recvVars ==
    <<rpc, Exit, QuickExit, TermExit, status, held, target, shutStatus,
      shutReason, shutLeft, ctrlToD, ctrlToR, dataToR, oob, wpc, taskStatus,
      outbox, inbox, stopRequested, wExit, isWorking, wpkg, dpc, dStop,
      dBarrier, dExit, finalStatus, rjtAt, termPkg, signalled,
      sinceQuick, endedBy, killedBy, shutComm, rlog, startup, exitHeld, sent,
      lastCmd, dispatched, badRead, wNonOK, retry>>

vars ==
    <<distVars, recvVars, forkVars>>

Workers == DOMAIN wpc

\* The worker slots of a ForkManager, the process IDs and the forks.
Slots == 1..NumSlots
Pids == 1..MaxPids
NoFork == [slot |-> 0, pid |-> 0]

\* A ForkManager whose workers were added and none started: no Status has
\* a process, and the system runs no child.
InitSupervisor ==
    /\ wcStatus = [s \in Slots |-> [pid |-> 0, isWorking |-> FALSE]]
    /\ everWorked = [s \in Slots |-> FALSE]
    /\ procs = [p \in Pids |-> [state |-> "free", fork |-> 0]]
    /\ forking = NoFork
    /\ forks = 0
    /\ slotFork = [s \in Slots |-> 0]
    /\ forkSlot = [f \in 1..MaxForks |-> 0]
    /\ lateReap = {}

NoPackage == [id |-> 0, numElements |-> 0, data |-> NewBuffer(0)]

\* The exit flags of the Receiver process.
flagVars ==
    <<Exit, QuickExit, TermExit>>

workerVars ==
    <<wpc, taskStatus, outbox, inbox, stopRequested, wExit, isWorking, wpkg>>

distributorSide ==
    <<dpc, dStop, dBarrier, dExit>>

\* ForkManager::getNumActiveWorkers
getNumActiveWorkers ==
    Cardinality({w \in Workers : isWorking[w]})

\* The Receiver is inside requestWorkPackages (sendWorkPackage included).
InRequestLoop ==
    rpc \in {"loop", "ping", "awaitCmd", "awaitData", "dispatch", "getmsg",
             "send"}


\* A newly constructed Distributor over its store, with no checkpoint file.
InitDistributor ==
    /\ cursorState = Constructed(storeCount).cur.state
    /\ cursorPos = Constructed(storeCount).cur.pos
    /\ recordsRemaining = Constructed(storeCount).remaining
    /\ lastDistributedKey = Constructed(storeCount).lastKey
    /\ chk = [present |-> FALSE, reason |-> << >>, lastKey |-> EmptyKey,
              numKeys |-> 0]
    /\ workPackage = [numElements |-> 0, data |-> NewBuffer(0),
                      entries |-> << >>]
    /\ distOp = [op |-> "construct", raised |-> FALSE, keyCount |-> 0]
    /\ resumed = FALSE
    /\ calls = 0
    /\ failures = 0
    /\ restoredMidRun = FALSE
    /\ restored = FALSE
    /\ sumElements = 0
    /\ okReads = 0

\* Log lines and reason strings are kept as their words.
\* start() naming every end of the run a failure.
ReasonFor_AlwaysFailed(st) ==
    <<"Failed">>

\* start(): the reason given to shutdown for the status that
\* requestWorkPackages returned.
ReasonFor(st) ==
    IF st = "OK" THEN <<"Normal", "end">>
    ELSE IF st = "Exit" THEN <<"Early", "exit">>
    ELSE IF st = "RequestJobTermination"
         THEN <<"Early", "exit", "(job", "termination", "requested)">>
    ELSE <<"Failed">>

\* The words of sub appear in line, in order and adjacent.
ContainsWords(line, sub) ==
    \E i \in 0..(Len(line) - Len(sub)) :
        \A j \in 1..Len(sub) : line[i + j] = sub[j]

\* MPI_Send of a status to task 0 with the Control tag.
SendControl(st) ==
    ctrlToD' = Append(ctrlToD, to_int_type(TaskStatus, st))

\* ForkManager::broadcastSignal(SIGINT): the handler of every worker process
\* sets an exit flag of that process.
BroadcastSIGINT ==
    [w \in Workers |-> IF wpc[w] \in {"none", "dead"} THEN wExit[w] ELSE TRUE]

\* broadcastSignal(SIGKILL) reaching no worker.
BroadcastSIGKILL_Spare ==
    wpc

\* ForkManager::broadcastSignal(SIGKILL): every worker process dies.
BroadcastSIGKILL ==
    [w \in Workers |-> IF wpc[w] = "none" THEN "none" ELSE "dead"]

\* stopWorker signalling nobody.
stopWorker_Nobody(w) ==
    stopRequested

\* ForkManager::stopWorker: the worker is told to stop, unless it is not
\* working any more, which raises (and is logged by the callers).
stopWorker(w) ==
    IF isWorking[w] THEN [stopRequested EXCEPT ![w] = TRUE] ELSE stopRequested

\* Receiver::start leaves for Receiver::shutdown(st, reason).
EnterShutdown(st, reason) ==
    /\ rpc' = "shutdown"
    /\ shutStatus' = st
    /\ shutReason' = reason

\* What a step of a worker process leaves alone.
WorkerFrame ==
    UNCHANGED <<forkVars,
                distVars, flagVars, rpc, status, held, target, shutStatus,
                shutReason, shutLeft, ctrlToD, ctrlToR, dataToR, oob,
                distributorSide, finalStatus, rjtAt, signalled, sinceQuick,
                endedBy, killedBy, shutComm, rlog, startup, exitHeld, sent,
                lastCmd, dispatched, badRead, retry>>

(***************************************************************************)
(* Worker processes: Receiver::PackageWorker::workerMain.                  *)
(***************************************************************************)
\* The logsheet is opened and the child package processor created; either
\* can fail, and then the process returns without a message.
W_Begin(w) ==
    /\ wpc[w] = "starting"
    /\ \E ok \in BOOLEAN :
        wpc' = [wpc EXCEPT ![w] = IF ok THEN "top" ELSE "exited"]
    /\ UNCHANGED <<taskStatus, outbox, inbox, stopRequested, wExit,
                   isWorking, wpkg>>
    /\ UNCHANGED wNonOK
    /\ WorkerFrame
    /\ UNCHANGED termPkg

\* workerMain reporting its status whatever the exit flags.
StatusToReport_IgnoreFlags(exitFlag, st) ==
    st

\* workerMain: an exit flag of the process turns the status into Exit.
StatusToReport(exitFlag, st) ==
    IF exitFlag THEN "Exit" ELSE st

\* workerMain waiting for a command whatever status it sent.
AfterReport_AlwaysWait(st) ==
    "wait"

\* workerMain: after the status is sent, any status but OK ends the loop.
AfterReport(st) ==
    IF st # "OK" THEN "exited" ELSE "wait"

\* Top of the loop: stopRequested is tested, the exit flags turn the status
\* into Exit, and the status is sent; any status but OK ends the loop.
W_Report(w) ==
    /\ wpc[w] = "top"
    /\ IF stopRequested[w]
       THEN /\ wpc' = [wpc EXCEPT ![w] = "exited"]
            /\ UNCHANGED <<taskStatus, outbox, wNonOK>>
       ELSE LET st == StatusToReport(wExit[w], taskStatus[w])
            IN  /\ taskStatus' = [taskStatus EXCEPT ![w] = st]
                /\ outbox' = [outbox EXCEPT
                                ![w] = Append(@, statusToMessage(st))]
                /\ wNonOK' = IF st = "OK" THEN wNonOK
                             ELSE [wNonOK EXCEPT ![w] = Append(@, st)]
                /\ wpc' = [wpc EXCEPT ![w] = AfterReport(st)]
    /\ UNCHANGED <<inbox, stopRequested, wExit, isWorking, wpkg>>
    /\ WorkerFrame
    /\ UNCHANGED termPkg

\* waitForMessage returns false: the wait was cut short by a stop request or
\* a signal, and the loop ends.
W_WaitFail(w) ==
    /\ wpc[w] = "wait"
    /\ Len(inbox[w]) = 0
    /\ stopRequested[w] \/ wExit[w]
    /\ wpc' = [wpc EXCEPT ![w] = "exited"]
    /\ UNCHANGED <<taskStatus, outbox, inbox, stopRequested, wExit,
                   isWorking, wpkg>>
    /\ UNCHANGED wNonOK
    /\ WorkerFrame
    /\ UNCHANGED termPkg

\* The little-endian bytes of a count, read back as a number.
RECURSIVE FromLEBytes(_)
FromLEBytes(bytes) ==
    IF bytes = << >> THEN 0
    ELSE bytes[1] + 256 * FromLEBytes(Tail(bytes))

\* The command, the element count and the payload are received (the Receiver
\* sends no command but Continue).
W_Take(w) ==
    /\ wpc[w] = "wait"
    /\ Len(inbox[w]) >= 3
    /\ messageToCommand(inbox[w][1]) # "Ignore"
    /\ wpkg' = [wpkg EXCEPT
                  ![w] = [id |-> inbox[w][3].id,
                          numElements |-> FromLEBytes(inbox[w][2]),
                          data |-> inbox[w][3].data]]
    /\ inbox' = [inbox EXCEPT ![w] = SubSeq(@, 4, Len(@))]
    /\ wpc' = [wpc EXCEPT ![w] = "proc"]
    /\ UNCHANGED <<taskStatus, outbox, stopRequested, wExit, isWorking>>
    /\ UNCHANGED wNonOK
    /\ WorkerFrame
    /\ UNCHANGED termPkg

\* processWorkPackage returns, or raises TerminateJob, or raises another
\* exception; the worker goes back to the top of the loop.
W_Process(w) ==
    /\ wpc[w] = "proc"
    /\ \E outcome \in {"OK", "RequestJobTermination", "Failed"} :
        /\ taskStatus' = [taskStatus EXCEPT
                            ![w] = IF outcome = "OK" THEN @ ELSE outcome]
        /\ termPkg' = IF outcome = "RequestJobTermination" /\ termPkg = 0
                      THEN wpkg[w].id ELSE termPkg
    /\ wpc' = [wpc EXCEPT ![w] = "top"]
    /\ wpkg' = [wpkg EXCEPT ![w] = NoPackage]
    /\ UNCHANGED <<outbox, inbox, stopRequested, wExit, isWorking, wNonOK>>
    /\ WorkerFrame

\* The worker process has ended and the Receiver's SIGCHLD handling marks it
\* as not working.
Reap(w) ==
    /\ wpc[w] \in {"exited", "dead"}
    /\ isWorking[w]
    /\ isWorking' = [isWorking EXCEPT ![w] = FALSE]
    /\ UNCHANGED <<wpc, taskStatus, outbox, inbox, stopRequested, wExit, wpkg>>
    /\ UNCHANGED wNonOK
    /\ WorkerFrame
    /\ UNCHANGED termPkg

(***************************************************************************)
(* The Receiver: Receiver::start, requestWorkPackages, sendWorkPackage and *)
(* shutdown, one action per stretch of code between two communications.    *)
(***************************************************************************)
\* What a step of the Receiver leaves alone whatever it does.
ReceiverFrame ==
    UNCHANGED <<forkVars,
                distVars, Exit, distributorSide, taskStatus, inbox, wpkg,
                termPkg, wNonOK>>

\* start: the logsheet is opened; when that fails, Failed is sent and the
\* Receiver shuts down.
R_Start ==
    /\ rpc = "start"
    /\ \E ok \in BOOLEAN :
        IF ok
        THEN /\ rpc' = "awaitFlag"
             /\ startup' = [startup EXCEPT !.log = "ok"]
             /\ UNCHANGED <<ctrlToD, shutStatus, shutReason>>
        ELSE /\ SendControl("Failed")
             /\ startup' = [startup EXCEPT !.log = "failed",
                                           !.reply = "Failed"]
             /\ EnterShutdown("Failed",
                              <<"Failed", "opening", "Logsheet()">>)
    /\ UNCHANGED <<QuickExit, TermExit, status, held, target,
                   shutLeft, ctrlToR, dataToR, oob, wpc, outbox,
                   stopRequested, wExit, isWorking, finalStatus, rjtAt,
                   signalled, sinceQuick, endedBy, killedBy, shutComm, rlog>>
    /\ ReceiverFrame
    /\ UNCHANGED <<lastCmd, dispatched, badRead, retry>>
    /\ UNCHANGED <<exitHeld, sent>>

\* start() going on whatever the startup flag.
DistributorSaysAbort_Never(flag) ==
    FALSE

\* start(): the test of the startup flag.
DistributorSaysAbort(flag) ==
    flag = to_int_type(TaskStatus, "Failed")

\* start: the Distributor's startup flag is received; Failed makes the
\* Receiver answer OK and shut down with status OK.
R_RecvFlag ==
    /\ rpc = "awaitFlag"
    /\ ctrlToR # << >>
    /\ ctrlToR' = Tail(ctrlToR)
    /\ IF DistributorSaysAbort(Head(ctrlToR))
       THEN /\ SendControl("OK")
            /\ startup' = [startup EXCEPT !.flag = "Failed", !.reply = "OK"]
            /\ EnterShutdown("OK", <<"Distributor", "says", "abort">>)
       ELSE /\ rpc' = "init"
            /\ startup' = [startup EXCEPT
                              !.flag = to_enum(TaskStatus, Head(ctrlToR))]
            /\ UNCHANGED <<ctrlToD, shutStatus, shutReason>>
    /\ UNCHANGED <<QuickExit, TermExit, status, held, target,
                   shutLeft, dataToR, oob, wpc, outbox, stopRequested, wExit,
                   isWorking, finalStatus, rjtAt, signalled, sinceQuick,
                   endedBy, killedBy, shutComm, rlog>>
    /\ ReceiverFrame
    /\ UNCHANGED <<lastCmd, dispatched, badRead, retry>>
    /\ UNCHANGED <<exitHeld, sent>>

\* start: performInitialization, then startWorkers (a worker whose start
\* fails is logged and left out), then the test for no workers at all.
R_Init ==
    /\ rpc = "init"
    /\ \E initOk \in BOOLEAN, started \in SUBSET Workers :
        IF ~initOk
        THEN /\ started = {}
             /\ SendControl("Failed")
             /\ startup' = [startup EXCEPT !.init = "failed",
                                           !.reply = "Failed"]
             /\ EnterShutdown("Failed",
                              <<"Failed", "performInitalization()">>)
             /\ UNCHANGED <<wpc, isWorking>>
        ELSE /\ wpc' = [w \in Workers |->
                          IF w \in started THEN "starting" ELSE "none"]
             /\ isWorking' = [w \in Workers |-> w \in started]
             /\ IF started = {}
                THEN /\ SendControl("Failed")
                     /\ startup' = [startup EXCEPT !.init = "ok",
                                                   !.workers = 0,
                                                   !.reply = "Failed"]
                     /\ EnterShutdown("Failed", <<"No", "workers">>)
                ELSE /\ SendControl("OK")
                     /\ startup' = [startup EXCEPT
                                       !.init = "ok",
                                       !.workers = Cardinality(started),
                                       !.reply = "OK"]
                     /\ rpc' = "loop"
                     /\ UNCHANGED <<shutStatus, shutReason>>
    /\ UNCHANGED <<QuickExit, TermExit, status, held, target,
                   shutLeft, ctrlToR, dataToR, oob, outbox, stopRequested,
                   wExit, finalStatus, rjtAt, signalled, sinceQuick, endedBy,
                   killedBy, shutComm, rlog>>
    /\ ReceiverFrame
    /\ UNCHANGED <<lastCmd, dispatched, badRead, retry>>
    /\ UNCHANGED <<exitHeld, sent>>

\* requestWorkPackages, top of the loop: the local exit flags are tested in
\* the order Exit, QuickExit, TermExit; the first one set ends the loop, and
\* start() shuts down with the reason of the status returned.
R_LoopTop ==
    /\ rpc = "loop"
    /\ IF Exit
       THEN /\ rlog' = rlog \cup {<<"Exit", "signal">>}
            /\ SendControl("Exit")
            /\ status' = "Exit"
            /\ endedBy' = "Exit"
            /\ EnterShutdown("Exit", ReasonFor("Exit"))
            /\ UNCHANGED <<wpc, wExit, signalled, killedBy>>
       ELSE IF QuickExit
       THEN /\ rlog' = rlog \cup {<<"Quick", "Exit", "signal">>}
            /\ wExit' = BroadcastSIGINT
            /\ signalled' = signalled \cup {"SIGINT"}
            /\ SendControl("Exit")
            /\ status' = "Exit"
            /\ endedBy' = "QuickExit"
            /\ EnterShutdown("Exit", ReasonFor("Exit"))
            /\ UNCHANGED <<wpc, killedBy>>
       ELSE IF TermExit
       THEN /\ rlog' = rlog \cup {<<"Termination", "Exit", "signal">>}
            /\ wpc' = BroadcastSIGKILL
            /\ signalled' = signalled \cup {"SIGKILL"}
            /\ killedBy' = "flag"
            /\ SendControl("Exit")
            /\ status' = "Exit"
            /\ endedBy' = "TermExit"
            /\ EnterShutdown("Exit", ReasonFor("Exit"))
            /\ UNCHANGED wExit
       ELSE /\ rpc' = "ping"
            /\ UNCHANGED <<rlog, ctrlToD, status, endedBy, shutStatus,
                           shutReason, wpc, wExit, signalled, killedBy>>
    /\ UNCHANGED <<QuickExit, TermExit, held, target, shutLeft,
                   ctrlToR, dataToR, oob, outbox, stopRequested, isWorking,
                   finalStatus, rjtAt, sinceQuick, shutComm>>
    /\ ReceiverFrame
    /\ lastCmd' = "none"
    /\ UNCHANGED <<dispatched, badRead, retry>>
    /\ UNCHANGED <<startup, exitHeld, sent>>

\* requestWorkPackages: the OK status that asks for a work package is sent
\* (the send half of MPI_Sendrecv).
R_Ping ==
    /\ rpc = "ping"
    /\ SendControl("OK")
    /\ rpc' = "awaitCmd"
    /\ sinceQuick' = IF QuickExit /\ sinceQuick < 2
                     THEN sinceQuick + 1 ELSE sinceQuick
    /\ UNCHANGED <<QuickExit, TermExit, status, held, target,
                   shutStatus, shutReason, shutLeft, ctrlToR, dataToR, oob,
                   wpc, outbox, stopRequested, wExit, isWorking, finalStatus,
                   rjtAt, signalled, endedBy, killedBy, shutComm, rlog>>
    /\ ReceiverFrame
    /\ UNCHANGED <<lastCmd, dispatched, badRead, retry>>
    /\ UNCHANGED <<startup, exitHeld, sent>>

\* requestWorkPackages: the Distributor's command is received (the receive
\* half of MPI_Sendrecv) and acted on.
R_RecvCmd ==
    /\ rpc = "awaitCmd"
    /\ ctrlToR # << >>
    /\ ctrlToR' = Tail(ctrlToR)
    /\ lastCmd' = to_enum(TaskCommand, Head(ctrlToR))
    /\ LET taskCommandE == to_enum(TaskCommand, Head(ctrlToR))
       IN  IF taskCommandE = "Ignore"
           THEN /\ rpc' = "loop"
                /\ UNCHANGED <<shutStatus, shutReason, wpc, wExit, signalled,
                               killedBy, endedBy>>
           ELSE IF taskCommandE = "Exit"
           THEN /\ EnterShutdown(status, ReasonFor(status))
                /\ endedBy' = "ExitCommand"
                /\ UNCHANGED <<wpc, wExit, signalled, killedBy>>
           ELSE IF taskCommandE = "QuickExit"
           THEN /\ wExit' = BroadcastSIGINT
                /\ signalled' = signalled \cup {"SIGINT"}
                /\ EnterShutdown(status, ReasonFor(status))
                /\ endedBy' = "QuickExitCommand"
                /\ UNCHANGED <<wpc, killedBy>>
           ELSE IF taskCommandE = "TermExit"
           THEN /\ wpc' = BroadcastSIGKILL
                /\ signalled' = signalled \cup {"SIGKILL"}
                /\ killedBy' = "command"
                /\ EnterShutdown(status, ReasonFor(status))
                /\ endedBy' = "TermExitCommand"
                /\ UNCHANGED wExit
           ELSE /\ rpc' = "awaitData"
                /\ UNCHANGED <<shutStatus, shutReason, wpc, wExit, signalled,
                               killedBy, endedBy>>
    /\ UNCHANGED <<QuickExit, TermExit, status, held, target,
                   shutLeft, ctrlToD, dataToR, oob, outbox, stopRequested,
                   isWorking, finalStatus, rjtAt, sinceQuick, shutComm, rlog>>
    /\ ReceiverFrame
    /\ UNCHANGED <<dispatched, badRead, retry>>
    /\ UNCHANGED <<startup, exitHeld, sent>>

\* requestWorkPackages taking the size of the raw data for the number of
\* elements.
ReceivedPackage_CountFromLength(raw, numElements) ==
    [id |-> raw.id, numElements |-> raw.data.size, data |-> raw.data]

\* requestWorkPackages: the WorkPackage made of the raw data of the first
\* Data message and the number of elements of the second.
ReceivedPackage(raw, numElements) ==
    [id |-> raw.id, numElements |-> numElements, data |-> raw.data]

\* requestWorkPackages: the raw data, then the number of elements, are
\* received, and sendWorkPackage is entered with the package.
R_RecvPackage ==
    /\ rpc = "awaitData"
    /\ Len(dataToR) >= 2
    /\ held' = ReceivedPackage(dataToR[1], dataToR[2])
    /\ dataToR' = SubSeq(dataToR, 3, Len(dataToR))
    /\ rpc' = "dispatch"
    /\ exitHeld' = IF Exit /\ ~QuickExit /\ ~TermExit
                   THEN dataToR[1].id ELSE exitHeld
    /\ UNCHANGED <<QuickExit, TermExit, status, target,
                   shutStatus, shutReason, shutLeft, ctrlToD, ctrlToR, oob,
                   wpc, outbox, stopRequested, wExit, isWorking, finalStatus,
                   rjtAt, signalled, sinceQuick, endedBy, killedBy, shutComm,
                   rlog>>
    /\ ReceiverFrame
    /\ lastCmd' = "none"
    /\ UNCHANGED <<dispatched, badRead, retry>>
    /\ UNCHANGED <<startup, sent>>

\* Workers with a message waiting in their pipe to the Receiver.
Ready ==
    {w \in Workers : outbox[w] # << >>}

\* requestWorkPackages, catch of Error::Exception around sendWorkPackage:
\* Failed is sent, and the loop ends with status Failed.
FailDispatch ==
    /\ SendControl("Failed")
    /\ status' = "Failed"
    /\ endedBy' = "Failed"
    /\ EnterShutdown("Failed", ReasonFor("Failed"))

\* sendWorkPackage never withholding the package.
WithholdPackage_Never(quick, term) ==
    FALSE

\* sendWorkPackage returning without the package under any of the flags.
WithholdPackage_AnyFlag(quick, term) ==
    quick \/ term \/ Exit

\* sendWorkPackage: with QuickExit or TermExit set the package is not sent
\* out (with Exit alone it is).
WithholdPackage(quick, term) ==
    quick \/ term

\* An out-of-band command assigning the flag instead of setting it.
OOBFlag_Assign(flag, oobCmdE, which) ==
    oobCmdE = which

\* sendWorkPackage: an out-of-band command sets the flag it names; a flag
\* that is set stays set.
OOBFlag(flag, oobCmdE, which) ==
    flag \/ oobCmdE = which

\* sendWorkPackage, top of the loop: no active worker raises; an out-of-band
\* command of the Distributor sets the matching flag; with QuickExit or
\* TermExit set the function returns without sending the package.
R_DispatchTop ==
    /\ rpc = "dispatch"
    /\ IF getNumActiveWorkers = 0
       THEN /\ FailDispatch
            /\ held' = NoPackage
            /\ retry' = 0
            /\ UNCHANGED <<QuickExit, TermExit, oob, rlog>>
       ELSE LET oobmsg == oob # << >>
                oobCmdE == IF oobmsg THEN to_enum(TaskCommand, Head(oob))
                           ELSE "Continue"
                quick == OOBFlag(QuickExit, oobCmdE, "QuickExit")
                term == OOBFlag(TermExit, oobCmdE, "TermExit")
            IN  /\ oob' = IF oobmsg THEN Tail(oob) ELSE oob
                /\ QuickExit' = quick
                /\ TermExit' = term
                /\ rlog' = rlog
                     \cup (IF oobCmdE = "QuickExit"
                           THEN {<<"OOB", "Quick", "Exit", "received">>}
                           ELSE {})
                     \cup (IF oobCmdE = "TermExit"
                           THEN {<<"OOB", "Term", "Exit", "received">>}
                           ELSE {})
                /\ rpc' = IF WithholdPackage(quick, term)
                          THEN "loop" ELSE "getmsg"
                /\ held' = IF WithholdPackage(quick, term)
                           THEN NoPackage ELSE held
                /\ retry' = IF WithholdPackage(quick, term)
                            THEN 0 ELSE retry
                /\ UNCHANGED <<ctrlToD, status, endedBy, shutStatus,
                               shutReason>>
    /\ UNCHANGED <<target, shutLeft, ctrlToR, dataToR, wpc, outbox,
                   stopRequested, wExit, isWorking, finalStatus, rjtAt,
                   signalled, sinceQuick, killedBy, shutComm>>
    /\ ReceiverFrame
    /\ UNCHANGED <<lastCmd, dispatched, badRead>>
    /\ UNCHANGED <<startup, exitHeld, sent>>

\* The catch of TerminateJob telling the Distributor nothing.
CatchTerminateJob_Silent ==
    /\ ctrlToD' = ctrlToD
    /\ status' = "RequestJobTermination"

\* requestWorkPackages, catch of TerminateJob around sendWorkPackage: the
\* status is sent to the Distributor and kept; the loop is not left.
CatchTerminateJob ==
    /\ SendControl("RequestJobTermination")
    /\ status' = "RequestJobTermination"

\* sendWorkPackage giving the package up at any status other than OK.
HeldAfterStatus_DropOnBad(st, wp) ==
    IF st # "OK" THEN NoPackage ELSE wp

\* sendWorkPackage: the package still to be sent once a worker's status was
\* read.  RequestJobTermination raises out of the call; after another status
\* but OK the loop goes on with the package it was called with.
HeldAfterStatus(st, wp) ==
    IF st = "RequestJobTermination" THEN NoPackage ELSE wp

\* sendWorkPackage: getNextMessage without waiting.  No message: pause and
\* go back to the top.  RequestJobTermination raises TerminateJob, which
\* requestWorkPackages catches: the status is sent to the Distributor and
\* the request loop goes on.  Another status but OK stops that worker.  OK
\* selects the worker.
R_GetMessage ==
    /\ rpc = "getmsg"
    /\ IF Ready = {}
       THEN /\ rpc' = "dispatch"
            /\ UNCHANGED <<outbox, ctrlToD, status, rjtAt, stopRequested,
                           target, held, badRead, retry>>
       ELSE \E worker \in Ready :
            LET st == messageToStatus(Head(outbox[worker]))
            IN  /\ outbox' = [outbox EXCEPT ![worker] = Tail(@)]
                /\ badRead' = IF st = "OK" THEN badRead
                              ELSE [badRead EXCEPT ![worker] = st]
                /\ held' = HeldAfterStatus(st, held)
                /\ IF st = "RequestJobTermination"
                   THEN /\ CatchTerminateJob
                        /\ rjtAt' = IF rjtAt = 0 THEN held.id ELSE rjtAt
                        /\ rpc' = "loop"
                        /\ retry' = 0
                        /\ UNCHANGED <<stopRequested, target>>
                   ELSE IF st # "OK"
                   THEN /\ stopRequested' = stopWorker(worker)
                        /\ rpc' = "dispatch"
                        /\ retry' = held.id
                        /\ UNCHANGED <<ctrlToD, status, rjtAt, target>>
                   ELSE /\ target' = worker
                        /\ rpc' = "send"
                        /\ UNCHANGED <<ctrlToD, status, rjtAt,
                                       stopRequested, retry>>
    /\ UNCHANGED <<QuickExit, TermExit, shutStatus,
                   shutReason, shutLeft, ctrlToR, dataToR, oob, wpc, wExit,
                   isWorking, finalStatus, signalled, sinceQuick, endedBy,
                   killedBy, shutComm, rlog>>
    /\ ReceiverFrame
    /\ UNCHANGED <<lastCmd, dispatched>>
    /\ UNCHANGED <<startup, exitHeld, sent>>

\* sendWorkPackage writing the size of the payload as the element count.
PackageMessages_SizeAsCount(wp) ==
    <<commandToMessage("Continue"), LEBytes(wp.data.size, 8),
      [id |-> wp.id, data |-> wp.data]>>

\* sendWorkPackage returning after the element count, the payload unsent.
PackageMessages_CountOnly(wp) ==
    <<commandToMessage("Continue"), LEBytes(wp.numElements, 8)>>

\* The three messages that carry a package to a worker.
PackageMessages(wp) ==
    <<commandToMessage("Continue"), LEBytes(wp.numElements, 8),
      [id |-> wp.id, data |-> wp.data]>>

\* sendWorkPackage: Continue, the element count and the payload are written
\* to the selected worker; writing to a worker that has ended raises, which
\* requestWorkPackages catches as a failure.
R_Send ==
    /\ rpc = "send"
    /\ IF wpc[target] \in {"exited", "dead"}
       THEN /\ FailDispatch
            /\ UNCHANGED <<inbox, sinceQuick, sent, dispatched>>
       ELSE /\ inbox' = [inbox EXCEPT ![target] = @ \o PackageMessages(held)]
            /\ sent' = sent \cup {held.id}
            /\ dispatched' = dispatched \cup {held}
            /\ sinceQuick' = IF QuickExit /\ sinceQuick < 2
                             THEN sinceQuick + 1 ELSE sinceQuick
            /\ rpc' = "loop"
            /\ UNCHANGED <<ctrlToD, status, endedBy, shutStatus, shutReason>>
    /\ held' = NoPackage
    /\ target' = 0
    /\ retry' = 0
    /\ UNCHANGED <<QuickExit, TermExit, shutLeft,
                   ctrlToR, dataToR, oob, wpc, outbox, stopRequested, wExit,
                   isWorking, finalStatus, rjtAt, signalled, killedBy,
                   shutComm, rlog>>
    /\ UNCHANGED <<distVars, Exit, distributorSide, taskStatus, wpkg,
                   termPkg, startup, exitHeld, lastCmd, badRead, wNonOK>>
    /\ UNCHANGED forkVars

\* shutdown is entered from start() before a logsheet was opened: its log
\* pointer is null.
NoLogsheet ==
    shutReason = <<"Failed", "opening", "Logsheet()">>

\* shutdown: the reason is logged; unless TermExit is set or no worker is
\* active, the stop loop is entered with the number of active workers.
\* Logging through the null log pointer is undefined: the process ends
\* there, or goes on with nothing logged.
R_Shutdown ==
    /\ rpc = "shutdown"
    /\ \E crash \in (IF NoLogsheet THEN BOOLEAN ELSE {FALSE}) :
        IF crash
        THEN /\ rpc' = "crashed"
             /\ UNCHANGED <<rlog, shutLeft, shutComm>>
        ELSE /\ rlog' = IF NoLogsheet THEN rlog
                        ELSE rlog \cup {<<"Shutting", "down:">> \o shutReason}
             /\ LET workerCount == getNumActiveWorkers
                IN  IF ~TermExit /\ workerCount > 0
                    THEN /\ shutLeft' = workerCount
                         /\ shutComm' = TRUE
                         /\ rpc' = "stopping"
                    ELSE /\ rpc' = "shutProc"
                         /\ UNCHANGED <<shutLeft, shutComm>>
    /\ UNCHANGED <<QuickExit, TermExit, status, held, target,
                   shutStatus, shutReason, ctrlToD, ctrlToR, dataToR, oob,
                   wpc, outbox, stopRequested, wExit, isWorking, finalStatus,
                   rjtAt, signalled, sinceQuick, endedBy, killedBy>>
    /\ ReceiverFrame
    /\ lastCmd' = "none"
    /\ UNCHANGED <<dispatched, badRead, retry>>
    /\ UNCHANGED <<startup, exitHeld, sent>>

\* No worker process is left that could still write a message.
NoSender ==
    \A w \in Workers : wpc[w] \in {"none", "exited", "dead"}

\* shutdown, one iteration of the stop loop: getNextMessage waits for a
\* message of any worker and that worker is stopped; with no message and no
\* worker left to write one the loop ends.
R_StopWorker ==
    /\ rpc = "stopping"
    /\ IF Ready = {}
       THEN /\ NoSender
            /\ rpc' = "shutProc"
            /\ shutLeft' = 0
            /\ UNCHANGED <<outbox, stopRequested>>
       ELSE \E worker \in Ready :
            /\ outbox' = [outbox EXCEPT ![worker] = Tail(@)]
            /\ stopRequested' = stopWorker(worker)
            /\ shutLeft' = shutLeft - 1
            /\ rpc' = IF shutLeft = 1 THEN "shutProc" ELSE "stopping"
    /\ UNCHANGED <<QuickExit, TermExit, status, held, target,
                   shutStatus, shutReason, ctrlToD, ctrlToR, dataToR, oob,
                   wpc, wExit, isWorking, finalStatus, rjtAt, signalled,
                   sinceQuick, endedBy, killedBy, shutComm, rlog>>
    /\ ReceiverFrame
    /\ UNCHANGED <<lastCmd, dispatched, badRead, retry>>
    /\ UNCHANGED <<startup, exitHeld, sent>>

\* shutdown: performShutdown (a failure is logged), then the barrier.
R_Barrier ==
    /\ rpc = "shutProc"
    /\ rpc' = "barrier"
    /\ UNCHANGED <<QuickExit, TermExit, status, held, target,
                   shutStatus, shutReason, shutLeft, ctrlToD, ctrlToR,
                   dataToR, oob, wpc, outbox, stopRequested, wExit,
                   isWorking, finalStatus, rjtAt, signalled, sinceQuick,
                   endedBy, killedBy, shutComm, rlog>>
    /\ ReceiverFrame
    /\ UNCHANGED <<lastCmd, dispatched, badRead, retry>>
    /\ UNCHANGED <<startup, exitHeld, sent>>

\* shutdown: past the barrier, the final status is sent.
R_Final ==
    /\ rpc = "barrier"
    /\ dBarrier
    /\ SendControl(shutStatus)
    /\ finalStatus' = shutStatus
    /\ rpc' = "done"
    /\ UNCHANGED <<QuickExit, TermExit, status, held, target,
                   shutStatus, shutReason, shutLeft, ctrlToR, dataToR, oob,
                   wpc, outbox, stopRequested, wExit, isWorking, rjtAt,
                   signalled, sinceQuick, endedBy, killedBy, shutComm, rlog>>
    /\ ReceiverFrame
    /\ UNCHANGED <<lastCmd, dispatched, badRead, retry>>
    /\ UNCHANGED <<startup, exitHeld, sent>>

(***************************************************************************)
(* Signals delivered to the Receiver process: the handler sets the flag.   *)
(* A signal is followed as long as the Receiver still reads its flag: Exit *)
(* and QuickExit inside requestWorkPackages, TermExit until shutdown has   *)
(* tested it.                                                              *)
(***************************************************************************)
SignalFrame ==
    UNCHANGED <<forkVars,
                distVars, rpc, status, held, target, shutStatus, shutReason,
                shutLeft, ctrlToD, ctrlToR, dataToR, oob, workerVars,
                distributorSide, finalStatus, rjtAt, termPkg, signalled,
                sinceQuick, endedBy, killedBy, shutComm, rlog, startup, sent,
                lastCmd, dispatched, badRead, wNonOK, retry>>

SignalExit ==
    /\ InRequestLoop
    /\ ~Exit
    /\ Exit' = TRUE
    /\ exitHeld' = IF held # NoPackage /\ ~QuickExit /\ ~TermExit
                   THEN held.id ELSE exitHeld
    /\ UNCHANGED <<QuickExit, TermExit>>
    /\ SignalFrame

SignalQuickExit ==
    /\ InRequestLoop
    /\ ~QuickExit
    /\ QuickExit' = TRUE
    /\ UNCHANGED <<Exit, TermExit, exitHeld>>
    /\ SignalFrame

SignalTermExit ==
    /\ InRequestLoop \/ rpc = "shutdown"
    /\ ~TermExit
    /\ TermExit' = TRUE
    /\ UNCHANGED <<Exit, QuickExit, exitHeld>>
    /\ SignalFrame

(***************************************************************************)
(* The Distributor's side of the conversation with the Receiver: the       *)
(* startup flag, one command per package request, the package made by      *)
(* createWorkPackage behind a Continue, out-of-band exit commands, the     *)
(* shutdown barrier and the final status.                                  *)
(***************************************************************************)
DistributorFrame ==
    UNCHANGED <<forkVars,
                flagVars, rpc, status, held, target, shutStatus, shutReason,
                shutLeft, workerVars, finalStatus, rjtAt, termPkg, signalled,
                sinceQuick, endedBy, killedBy, shutComm, rlog, startup,
                exitHeld, sent, lastCmd, dispatched, badRead, wNonOK,
                retry>>

\* The startup flag: OK, or Failed when the Distributor could not start.
D_SendFlag ==
    /\ dpc = "init"
    /\ \E flag \in {"OK", "Failed"} :
        /\ ctrlToR' = Append(ctrlToR, to_int_type(TaskStatus, flag))
        /\ dpc' = IF flag = "OK" THEN "startup" ELSE "aborting"
    /\ UNCHANGED <<distVars, ctrlToD, dataToR, oob, dStop, dBarrier, dExit>>
    /\ DistributorFrame

\* The Receiver's answer to the startup flag.
D_Startup ==
    /\ dpc \in {"startup", "aborting"}
    /\ ctrlToD # << >>
    /\ ctrlToD' = Tail(ctrlToD)
    /\ dpc' = IF dpc = "startup"
                 /\ to_enum(TaskStatus, Head(ctrlToD)) = "OK"
              THEN "distribute" ELSE "finish"
    /\ UNCHANGED <<distVars, ctrlToR, dataToR, oob, dStop, dBarrier, dExit>>
    /\ DistributorFrame

\* The commands the Distributor may answer a package request with: under an
\* exit condition of its own, that exit; once asked to terminate the job it
\* produces no package and forces the shutdown; with no record left it ends
\* the Receiver's run.
Replies ==
    IF dExit # "none" THEN {dExit}
    ELSE IF dStop THEN {"QuickExit", "TermExit"}
    ELSE {"Ignore", "Exit"}
         \cup (IF recordsRemaining > 0 THEN {"Continue"} ELSE {})

\* A status of the Receiver is received.  OK asks for a package and is
\* answered with a command (Continue is followed by the package: the raw
\* data, then the number of elements); RequestJobTermination stops the
\* production of packages; Exit and Failed end the conversation.
D_Serve ==
    /\ dpc = "distribute"
    /\ ctrlToD # << >>
    /\ ctrlToD' = Tail(ctrlToD)
    /\ LET st == to_enum(TaskStatus, Head(ctrlToD))
       IN  IF st = "OK"
           THEN \E cmd \in Replies :
                /\ ctrlToR' = Append(ctrlToR, to_int_type(TaskCommand, cmd))
                /\ dpc' = IF cmd \in {"Continue", "Ignore"}
                          THEN "distribute" ELSE "finish"
                /\ dStop' = dStop
                /\ IF cmd = "Continue"
                   THEN LET r == createWorkPackage(DistState,
                                     [n \in Iterations(DistState) |-> "none"])
                        IN  /\ workPackage' = r.wp
                            /\ cursorState' = r.d.cur.state
                            /\ cursorPos' = r.d.cur.pos
                            /\ recordsRemaining' = r.d.remaining
                            /\ lastDistributedKey' = r.d.lastKey
                            /\ sumElements' = sumElements + r.wp.numElements
                            /\ okReads' = okReads + r.reads
                            /\ distOp' = [op |-> "createWorkPackage",
                                          raised |-> FALSE,
                                          keyCount |-> r.keyCount]
                            /\ calls' = calls + 1
                            /\ dataToR' = dataToR \o
                                   <<[id |-> calls + 1, data |-> r.wp.data],
                                     r.wp.numElements>>
                            /\ UNCHANGED <<distConfig, chk, resumed, failures,
                                           restoredMidRun, restored>>
                   ELSE UNCHANGED <<distVars, dataToR>>
           ELSE /\ dStop' = (dStop \/ st = "RequestJobTermination")
                /\ dpc' = IF st = "RequestJobTermination"
                          THEN "distribute" ELSE "finish"
                /\ UNCHANGED <<distVars, ctrlToR, dataToR>>
    /\ UNCHANGED <<oob, dBarrier, dExit>>
    /\ DistributorFrame

\* A quick or forced exit condition arises in the Distributor and is sent
\* out of band.
D_OutOfBand ==
    /\ dpc = "distribute"
    /\ dExit = "none"
    /\ \E cmd \in {"QuickExit", "TermExit"} :
        /\ oob' = Append(oob, to_int_type(TaskCommand, cmd))
        /\ dExit' = cmd
    /\ UNCHANGED <<distVars, ctrlToD, ctrlToR, dataToR, dpc, dStop, dBarrier>>
    /\ DistributorFrame

\* The Distributor reaches the shutdown barrier.
D_Barrier ==
    /\ dpc = "finish"
    /\ dBarrier' = TRUE
    /\ dpc' = "barrier"
    /\ UNCHANGED <<distVars, ctrlToD, ctrlToR, dataToR, oob, dStop, dExit>>
    /\ DistributorFrame

\* The Receiver's final status is received.
D_Final ==
    /\ dpc = "barrier"
    /\ ctrlToD # << >>
    /\ ctrlToD' = Tail(ctrlToD)
    /\ dpc' = "done"
    /\ UNCHANGED <<distVars, ctrlToR, dataToR, oob, dStop, dBarrier, dExit>>
    /\ DistributorFrame

(***************************************************************************)
(* The specifications.                                                     *)
(***************************************************************************)
\* A Receiver that has been constructed, its workers not yet started, and
\* the Distributor before it sends the startup flag.
InitReceiverOf(workers) ==
    /\ rpc = "start"
    /\ InitSupervisor
    /\ Exit = FALSE
    /\ QuickExit = FALSE
    /\ TermExit = FALSE
    /\ status = "OK"
    /\ held = NoPackage
    /\ target = 0
    /\ shutStatus = "OK"
    /\ shutReason = << >>
    /\ shutLeft = 0
    /\ ctrlToD = << >>
    /\ ctrlToR = << >>
    /\ dataToR = << >>
    /\ oob = << >>
    /\ wpc = [w \in 1..workers |-> "none"]
    /\ taskStatus = [w \in 1..workers |-> "OK"]
    /\ outbox = [w \in 1..workers |-> << >>]
    /\ inbox = [w \in 1..workers |-> << >>]
    /\ stopRequested = [w \in 1..workers |-> FALSE]
    /\ wExit = [w \in 1..workers |-> FALSE]
    /\ isWorking = [w \in 1..workers |-> FALSE]
    /\ wpkg = [w \in 1..workers |-> NoPackage]
    /\ dpc = "init"
    /\ dStop = FALSE
    /\ dBarrier = FALSE
    /\ dExit = "none"
    /\ finalStatus = "none"
    /\ rjtAt = 0
    /\ termPkg = 0
    /\ signalled = {}
    /\ sinceQuick = 0
    /\ endedBy = "none"
    /\ killedBy = "none"
    /\ shutComm = FALSE
    /\ rlog = {}
    /\ startup = [log |-> "none", flag |-> "none", reply |-> "none",
                  init |-> "none", workers |-> -1]
    /\ exitHeld = 0
    /\ sent = {}
    /\ lastCmd = "none"
    /\ dispatched = {}
    /\ badRead = [w \in 1..workers |-> "none"]
    /\ wNonOK = [w \in 1..workers |-> << >>]
    /\ retry = 0

\* The Receiver of a node that is configured for NumWorkers workers.
InitReceiver ==
    InitReceiverOf(NumWorkers)

\* The Distributor alone.
InitDist ==
    /\ storeCount \in 0..MaxRecords
    /\ chunkSize \in 1..MaxChunk
    /\ includeValues \in BOOLEAN
    /\ InitDistributor
    /\ InitReceiver

NextDist ==
    \/ CreateWorkPackage /\ UNCHANGED <<recvVars, forkVars>>
    \/ CheckpointSave /\ UNCHANGED <<recvVars, forkVars>>
    \/ CheckpointRestore /\ UNCHANGED <<recvVars, forkVars>>
    \/ NewRun /\ UNCHANGED <<recvVars, forkVars>>

\* The Distributor over its record store and checkpoint file.
SpecDist ==
    InitDist /\ [][NextDist]_vars

\* A job of one Receiver: the store holds JobRecords records, handed out one
\* key per package.
InitJob ==
    /\ storeCount = JobRecords
    /\ chunkSize = 1
    /\ includeValues = FALSE
    /\ InitDistributor
    /\ InitReceiver

NextJob ==
    \/ R_Start
    \/ R_RecvFlag
    \/ R_Init
    \/ R_LoopTop
    \/ R_Ping
    \/ R_RecvCmd
    \/ R_RecvPackage
    \/ R_DispatchTop
    \/ R_GetMessage
    \/ R_Send
    \/ R_Shutdown
    \/ R_StopWorker
    \/ R_Barrier
    \/ R_Final
    \/ SignalExit
    \/ SignalQuickExit
    \/ SignalTermExit
    \/ \E w \in Workers : W_Begin(w)
    \/ \E w \in Workers : W_Report(w)
    \/ \E w \in Workers : W_WaitFail(w)
    \/ \E w \in Workers : W_Take(w)
    \/ \E w \in Workers : W_Process(w)
    \/ \E w \in Workers : Reap(w)
    \/ D_SendFlag
    \/ D_Startup
    \/ D_Serve
    \/ D_OutOfBand
    \/ D_Barrier
    \/ D_Final

\* A job of one Receiver whose node is configured for StartWorkers workers,
\* over a store of StartRecords records.
InitStart ==
    /\ storeCount = StartRecords
    /\ chunkSize = 1
    /\ includeValues = FALSE
    /\ InitDistributor
    /\ InitReceiverOf(StartWorkers)

SpecStart ==
    InitStart /\ [][NextJob]_vars

\* One Receiver with its workers, talking to the Distributor.
SpecJob ==
    InitJob /\ [][NextJob]_vars

(***************************************************************************)
(* The package layout on its own: the body of createWorkPackage's read     *)
(* loop applied to records of any content.                                 *)
(***************************************************************************)
\* Byte strings of the given lengths over the given bytes.
Strings(bytes, lens) ==
    UNION {[1..n -> bytes] : n \in lens}

\* Keys are file names; values are any bytes, none included.
PackKeys ==
    Strings({65}, 1..MaxKeyLen)

PackValues ==
    Strings({0, 255}, 0..MaxValueLen)

\* createWorkPackage up to its read loop: the buffer is created, nothing is
\* packed yet.
BeginPackage ==
    /\ workPackage.entries # << >>
    /\ workPackage' = [numElements |-> 0,
                       data |-> NewBuffer(InitialBufferSize),
                       entries |-> << >>]
    /\ UNCHANGED <<distConfig, cursorState, cursorPos, recordsRemaining,
                   lastDistributedKey, chk, distOp, resumed, calls, failures,
                   restoredMidRun, restored, sumElements, okReads>>

\* One iteration of the read loop whose read returned the record
\* (key, value): the record is written at index and counted.
AddRecord(key, value) ==
    /\ Len(workPackage.entries) < MaxPairs
    /\ LET index == IF workPackage.entries = << >> THEN 0
                    ELSE workPackage.data.size
           f == fillBufferWithKeyAndValue(workPackage.data, key, value, index)
       IN  workPackage' = [numElements |-> workPackage.numElements + 1,
                           data |-> f.buf,
                           entries |-> Append(workPackage.entries,
                                              [key |-> key, value |-> value])]
    /\ UNCHANGED <<distConfig, cursorState, cursorPos, recordsRemaining,
                   lastDistributedKey, chk, distOp, resumed, calls, failures,
                   restoredMidRun, restored, sumElements, okReads>>

InitPack ==
    /\ storeCount = 0
    /\ chunkSize = 1
    /\ includeValues = TRUE
    /\ InitDistributor
    /\ InitReceiver

NextPack ==
    \/ BeginPackage /\ UNCHANGED <<recvVars, forkVars>>
    \/ \E key \in PackKeys, value \in PackValues :
          AddRecord(key, value) /\ UNCHANGED <<recvVars, forkVars>>

\* Packages of up to MaxPairs records of any content.
SpecPack ==
    InitPack /\ [][NextPack]_vars

\* A consumer of the package: n records are read from the payload, each as
\* a uint32 key length, a uint64 value size, the key and the value.  The
\* reading stops where the payload is too short for the record.
RECURSIVE Decode(_, _, _)
Decode(bytes, index, n) ==
    IF n = 0 \/ index + 12 > Len(bytes) THEN << >>
    ELSE LET keyLength == FromLEBytes(SubSeq(bytes, index + 1, index + 4))
             valueSize == FromLEBytes(SubSeq(bytes, index + 5, index + 12))
             next == index + 12 + keyLength + valueSize
         IN  IF next > Len(bytes) THEN << >>
             ELSE <<[key |-> SubSeq(bytes, index + 13,
                                    index + 12 + keyLength),
                     value |-> SubSeq(bytes, index + 13 + keyLength, next)]>>
                      \o Decode(bytes, next, n - 1)

(***************************************************************************)
(* Properties of the Distributor.                                          *)
(***************************************************************************)
\* A step that is one createWorkPackage call.
IsCreateStep ==
    calls' = calls + 1

\* A step that is one checkpointRestore call that returned.
IsRestoreStep ==
    /\ distOp'.op = "checkpointRestore"
    /\ ~distOp'.raised
    /\ calls' = calls
    /\ chk' = chk
    /\ resumed' = resumed

\* A step that is one checkpointSave call.
IsSaveStep ==
    /\ distOp'.op = "checkpointSave"
    /\ calls' = calls
    /\ resumed' = resumed

\* A step that is one checkpointRestore call, returned or raised.
IsRestoreCall ==
    /\ distOp'.op = "checkpointRestore"
    /\ calls' = calls
    /\ chk' = chk
    /\ resumed' = resumed

\* C1: after every createWorkPackage call of a run, the sum of numElements
\* over the run's packages equals the number of keys successfully read, which
\* is at most the record count (in a run whose packages are not interleaved
\* with a checkpointRestore); a call made with the remaining-record counter
\* at 0 leaves it at 0 and produces a package with numElements 0.
C1_SumOfElements ==
    [][IsCreateStep =>
         /\ sumElements' = okReads'
         /\ ~restoredMidRun => okReads' <= storeCount
         /\ recordsRemaining = 0 =>
              (recordsRemaining' = 0 /\ workPackage'.numElements = 0)
      ]_vars

\* A run in which a read failed has distributed its other keys, reached a
\* remaining count of 0 and then been asked for one more package.
C1_Witness ==
    /\ distOp.op = "createWorkPackage"
    /\ distOp.keyCount = 0
    /\ recordsRemaining = 0
    /\ failures > 0
    /\ sumElements > 0
    /\ sumElements < storeCount

\* C2: a createWorkPackage call made with the remaining-record counter at 0
\* returns numElements 0 and a zero-length payload, and does not raise.
C2_EmptyPackage ==
    (distOp.op = "createWorkPackage" /\ distOp.keyCount = 0) =>
        /\ workPackage.numElements = 0
        /\ workPackage.data.size = 0
        /\ ~distOp.raised

\* C3: a checkpointRestore call that follows a checkpointRestore call which
\* returned leaves the record-store cursor and the remaining-record counter
\* as the first call left them.
C3_RestoreIdempotent ==
    [][(distOp.op = "checkpointRestore" /\ ~distOp.raised /\ IsRestoreStep) =>
         /\ cursorPos' = cursorPos
         /\ cursorState' = cursorState
         /\ recordsRemaining' = recordsRemaining
      ]_vars

\* The position of a key in the sequence of the store (0: not in the store).
PositionOf(key) ==
    IF \E i \in 1..storeCount : KeyOf(i) = key
    THEN CHOOSE i \in 1..storeCount : KeyOf(i) = key
    ELSE 0

\* The position of the record the next sequence() call reads.
NextRead ==
    IF cursorState = "START" THEN 1 ELSE cursorPos

\* C12: a checkpointRestore call that returns leaves the cursor one past the
\* checkpoint's Last Key, and the createWorkPackage call that follows it
\* pulls only keys that come after Last Key in the store.
C12_CursorPastLastKey ==
    [][/\ IsRestoreStep => NextRead' = PositionOf(chk.lastKey) + 1
       /\ (IsCreateStep /\ distOp.op = "checkpointRestore" /\ ~distOp.raised) =>
            \A n \in DOMAIN workPackage'.entries :
                PositionOf(workPackage'.entries[n].key)
                    > PositionOf(chk.lastKey)
      ]_vars

\* C13: when checkpointRestore is the first operation on a newly constructed
\* Distributor and returns, the remaining-record counter is the record count
\* of the store minus the checkpoint's Num Keys (in uint64_t arithmetic).
C13_FreshRestoreRemaining ==
    [][(IsRestoreStep /\ distOp.op = "construct") =>
         recordsRemaining' = (storeCount - chk.numKeys) % CounterMod
      ]_vars

\* A resumed run over a store of 3 records has restored a checkpoint of 2
\* distributed keys and has 1 record remaining.
C13_Witness ==
    /\ resumed
    /\ distOp.op = "checkpointRestore"
    /\ ~distOp.raised
    /\ calls = 0
    /\ storeCount = 3
    /\ chk.numKeys = 2
    /\ recordsRemaining = 1

\* C14: a createWorkPackage call leaves lastDistributedKey at the key of the
\* last record it packed, or as it was when it packed none; it attempts as
\* many reads as its target, and numElements is the target less the reads
\* that failed; a checkpointSave that writes the file records
\* lastDistributedKey as Last Key.
C14_LastKeyIsLastSuccess ==
    [][/\ IsCreateStep =>
            LET entries == workPackage'.entries
                failed == failures' - failures
            IN  /\ lastDistributedKey' =
                     IF entries = << >> THEN lastDistributedKey
                     ELSE entries[Len(entries)].key
                /\ (okReads' - okReads) + failed = distOp'.keyCount
                /\ workPackage'.numElements = distOp'.keyCount - failed
       /\ (IsSaveStep /\ chk' # chk) => chk'.lastKey = lastDistributedKey
      ]_vars

\* The first read of a chunk of 2 succeeded and the second failed; the
\* package has 1 element and the checkpoint saved after it records key 1.
C14_Witness ==
    /\ distOp.op = "checkpointSave"
    /\ chk.present
    /\ chk.lastKey = KeyOf(1)
    /\ lastDistributedKey = KeyOf(1)
    /\ calls = 1
    /\ chunkSize = 2
    /\ failures = 1
    /\ workPackage.numElements = 1
    /\ cursorPos = 3

\* The smaller of two numbers.
Min(a, b) ==
    IF a < b THEN a ELSE b

\* The size of the k-th package of a store of n keys cut in chunks of c.
PackageSize(n, c, k) ==
    IF (k - 1) * c >= n THEN 0 ELSE Min(c, n - (k - 1) * c)

\* C15: in a run without read failures and without a restore, the k-th
\* createWorkPackage call packs min(C, N - (k-1)C) keys, 0 once the N keys
\* are out (sizes C, ..., C, N mod C if nonzero, then 0), and a checkpoint
\* written after the k-th package records Num Keys = min(k*C, N).
C15_PackageSizes ==
    [][(~restored' /\ failures' = 0) =>
         /\ IsCreateStep =>
              /\ workPackage'.numElements
                    = PackageSize(storeCount, chunkSize, calls')
              /\ Len(workPackage'.entries) = workPackage'.numElements
         /\ (IsSaveStep /\ chk' # chk) =>
              chk'.numKeys = Min(calls * chunkSize, storeCount)
      ]_vars

\* A store of 3 keys in chunks of 2 has given packages of 2, 1 and 0 keys,
\* and the checkpoint written after the second package records 3 keys.
C15_Witness ==
    /\ storeCount = 3
    /\ chunkSize = 2
    /\ ~restored
    /\ failures = 0
    /\ calls = 3
    /\ distOp.op = "createWorkPackage"
    /\ workPackage.numElements = 0
    /\ sumElements = 3
    /\ chk.present
    /\ chk.numKeys = 3

\* C16: reading numElements records from the payload of a package gives
\* the (key, value) pairs that were packed, in the order they were packed,
\* values of length 0 included; the payload of a package that holds records
\* is exactly as long as its records.
C16_RoundTrip ==
    /\ Decode(workPackage.data.bytes, 0, workPackage.numElements)
          = workPackage.entries
    /\ workPackage.numElements = Len(workPackage.entries)
    /\ workPackage.entries # << >> =>
          /\ workPackage.data.size = Len(workPackage.data.bytes)

\* A package of two records, the first with a value of length 0, the second
\* with a two-byte value.
C16_Witness ==
    /\ workPackage.numElements = 2
    /\ workPackage.entries =
          <<[key |-> <<65>>, value |-> << >>],
            [key |-> <<65, 65>>, value |-> <<0, 255>>]>>
    /\ workPackage.data.size = 29

\* C17: a checkpointRestore call raises whenever the checkpoint is missing,
\* its Last Key is not a key of the store, or the read of the record or of
\* Num Keys fails; it returns only when none of these happened.
C17_RestoreFailureRaises ==
    [][IsRestoreCall =>
         ((~chk.present
             \/ PositionOf(chk.lastKey) = 0
             \/ failures' # failures) => distOp'.raised)
      ]_vars

\* The restore of a resumed run has raised on a failure that came after the
\* cursor was set at the checkpoint's Last Key; the counter is untouched.
C17_Witness ==
    /\ resumed
    /\ distOp.op = "checkpointRestore"
    /\ distOp.raised
    /\ chk.present
    /\ PositionOf(chk.lastKey) = 2
    /\ failures = 1
    /\ calls = 0
    /\ storeCount = 3
    /\ recordsRemaining = 3

\* C18: a checkpointSave call returns without raising and leaves the
\* remaining-record counter, lastDistributedKey and the cursor as they were;
\* when the file was written it holds the reason given, lastDistributedKey
\* and the record count less the remaining count; when it could not be
\* written it is as before.
C18_SaveIsBestEffort ==
    [][IsSaveStep =>
         /\ ~distOp'.raised
         /\ recordsRemaining' = recordsRemaining
         /\ lastDistributedKey' = lastDistributedKey
         /\ cursorState' = cursorState
         /\ cursorPos' = cursorPos
         /\ IF distOp'.synced
            THEN /\ chk'.present
                 /\ chk'.reason = distOp'.reason
                 /\ chk'.lastKey = lastDistributedKey
                 /\ chk'.numKeys
                      = (storeCount - recordsRemaining) % CounterMod
            ELSE chk' = chk
      ]_vars

\* A checkpoint of 2 keys out of 3 was written, and a later save, after the
\* third key went out, failed and left it in place.
C18_Witness ==
    /\ distOp.op = "checkpointSave"
    /\ ~distOp.synced
    /\ ~distOp.raised
    /\ chk.present
    /\ chk.numKeys = 2
    /\ chk.lastKey = KeyOf(2)
    /\ storeCount = 3
    /\ recordsRemaining = 0
    /\ lastDistributedKey = KeyOf(3)

(***************************************************************************)
(* Properties of the Receiver.                                             *)
(***************************************************************************)
\* The Receiver has left requestWorkPackages for shutdown.
LeftRequestLoop ==
    rpc \in {"shutdown", "stopping", "shutProc", "barrier", "done"}
        /\ endedBy # "none"

\* C4: when a worker has reported RequestJobTermination to the dispatching
\* Receiver (which then sends that status to the Distributor), the final
\* status the Receiver sends after the shutdown barrier is
\* RequestJobTermination.
C4_FinalStatusIsTermination ==
    (rjtAt # 0 /\ finalStatus # "none") =>
        finalStatus = "RequestJobTermination"

\* C5: once the Receiver has received RequestJobTermination from a worker,
\* it sends no further OK request to the Distributor (it never waits for a
\* command again), dispatches no further package, and has signalled its
\* workers when it leaves the request loop.
C5_CeasesDispatch ==
    rjtAt # 0 =>
        /\ rpc \notin {"awaitCmd", "awaitData", "dispatch", "getmsg", "send"}
        /\ LeftRequestLoop => signalled # {}

C7_QuickExitInterrupts ==
    (QuickExit /\ LeftRequestLoop) => "SIGINT" \in signalled

\* C8 as stated: no package request and no dispatch is begun with QuickExit
\* set.
C8_NothingAfterQuickExit ==
    sinceQuick = 0

\* C8: with QuickExit set, the Receiver begins at most the one request or
\* dispatch it was committed to when the flag was set; its next test of the
\* flag ends requesting and dispatching.
C8_AtMostOneAfterQuickExit ==
    sinceQuick <= 1

\* QuickExit was set after a test of the flag, one request or dispatch went
\* out, and the next test ended the run with the interrupt broadcast.
C8_Witness ==
    /\ sinceQuick = 1
    /\ endedBy = "QuickExit"
    /\ rpc = "done"

C10_NoTalkAfterKill ==
    killedBy # "none" => ~shutComm

\* A run has ended in which a package was held while Exit was the only flag
\* set, and QuickExit and TermExit stayed clear.
GracefulExitRun ==
    exitHeld # 0 /\ ~QuickExit /\ ~TermExit /\ finalStatus # "none"

\* C11 as stated: a package held while Exit alone is set is dispatched to a
\* worker; no package is requested after it; the loop is left by reporting
\* Exit, and the final status is Exit.
C11_GracefulExitDispatches ==
    /\ exitHeld # 0 => rpc \notin {"ping", "awaitCmd", "awaitData"}
    /\ GracefulExitRun =>
         /\ exitHeld \in sent
         /\ endedBy = "Exit"
         /\ finalStatus = "Exit"

\* C11: no package is requested once a package is held with Exit alone set.
\* The package is written to the worker that reports OK, and the run ends by
\* reporting Exit, with final status Exit; if a worker reports
\* RequestJobTermination first, the package is dropped and the run still ends
\* with Exit; if no worker is left, or the selected worker has ended, the
\* package is not sent and the run ends with Failed.
C11_GracefulExitOutcome ==
    /\ exitHeld # 0 => rpc \notin {"ping", "awaitCmd", "awaitData"}
    /\ GracefulExitRun =>
         \/ exitHeld \in sent /\ endedBy = "Exit" /\ finalStatus = "Exit"
         \/ /\ exitHeld \notin sent
            /\ rjtAt = exitHeld
            /\ endedBy = "Exit"
            /\ finalStatus = "Exit"
         \/ /\ exitHeld \notin sent
            /\ endedBy = "Failed"
            /\ finalStatus = "Failed"

\* Exit was set while package 2 was held; the package went to a worker and
\* the run ended with final status Exit, the third record left in the store.
C11_Witness ==
    /\ GracefulExitRun
    /\ exitHeld = 2
    /\ 2 \in sent
    /\ finalStatus = "Exit"
    /\ recordsRemaining = 1
    /\ dpc = "done"

\* C19: a Receiver that received Failed as the startup flag has answered OK,
\* has not called performInitialization, has no worker process, is shutting
\* down with status OK, and sends OK as its final status; a worker process
\* exists only when the startup flag received was OK.
C19_AbortedStart ==
    /\ startup.flag = "Failed" =>
         /\ startup.reply = "OK"
         /\ startup.init = "none"
         /\ \A w \in Workers : wpc[w] = "none" /\ ~isWorking[w]
         /\ rpc \in {"shutdown", "shutProc", "barrier", "done"}
         /\ shutStatus = "OK"
         /\ shutReason = <<"Distributor", "says", "abort">>
         /\ finalStatus \in {"none", "OK"}
    /\ (\E w \in Workers : wpc[w] # "none") => startup.flag = "OK"

\* The Distributor sent Failed, and the Receiver has sent its final status.
C19_Witness ==
    /\ startup.flag = "Failed"
    /\ finalStatus = "OK"
    /\ rpc = "done"
    /\ dpc = "done"

\* start() could not open the logsheet, performInitialization failed, or
\* startWorkers left no worker active.
StartFailed ==
    \/ startup.log = "failed"
    \/ startup.init = "failed"
    \/ startup.workers = 0

\* C20: a Receiver whose start failed (logsheet, initialization, or no
\* worker) goes through shutdown alive and sends Failed as its final
\* status.
C20_StartFailureSendsFinal ==
    StartFailed => rpc # "crashed"

\* C20, the part the code keeps: the step at which the start fails sends
\* Failed to the Distributor and enters shutdown; afterwards the Receiver
\* is never in the request loop, has written no package to a worker, shuts
\* down with status Failed, and a final status it sends is Failed.  The step
\* at which startWorkers leaves at least one worker active sends OK and
\* enters the request loop, however many of the configured workers started.
C20_StartOutcome ==
    [][ /\ (StartFailed' /\ ~StartFailed) =>
             /\ ctrlToD' = Append(ctrlToD, to_int_type(TaskStatus, "Failed"))
             /\ rpc' = "shutdown"
        /\ StartFailed' =>
             /\ ~InRequestLoop'
             /\ startup'.reply = "Failed"
             /\ shutStatus' = "Failed"
             /\ sent' = {}
             /\ finalStatus' \in {"none", "Failed"}
             /\ rpc' = "done" => finalStatus' = "Failed"
        /\ (startup'.workers >= 1 /\ startup.workers = -1) =>
             /\ getNumActiveWorkers' = startup'.workers
             /\ ctrlToD' = Append(ctrlToD, to_int_type(TaskStatus, "OK"))
             /\ startup'.reply = "OK"
             /\ rpc' = "loop"
      ]_vars

\* Of two configured workers one started; the job went on, a package was
\* written to the worker, and the Receiver ended with status OK.
C20_Witness ==
    /\ Cardinality(Workers) = 2
    /\ startup.workers = 1
    /\ startup.reply = "OK"
    /\ sent # {}
    /\ finalStatus = "OK"

(***************************************************************************)
(* Properties of the request loop, the dispatch and the worker loop.       *)
(***************************************************************************)
\* The Receiver takes a command out of the Control channel.
IsCommandStep ==
    rpc = "awaitCmd" /\ rpc' # "awaitCmd"

\* The Receiver takes a package out of the Data channel.
IsPackageReceive ==
    dataToR' # dataToR /\ Len(dataToR') < Len(dataToR)

\* The commands that end the request loop.
ExitCommands ==
    {"Exit", "QuickExit", "TermExit"}

\* What the claim says of every command but Ignore: the exit commands end
\* the loop with no package receive, QuickExit with every running worker
\* interrupted and TermExit with every worker killed; another command leads
\* to the receive of one package, and a package is received at no other
\* time.
CommandHandling ==
    /\ IsCommandStep =>
         LET cmd == to_enum(TaskCommand, Head(ctrlToR))
         IN  /\ ~IsPackageReceive
             /\ held' = NoPackage
             /\ ctrlToD' = ctrlToD
             /\ cmd = "Ignore" => rpc' = "loop"
             /\ cmd \in ExitCommands => rpc' = "shutdown"
             /\ cmd = "QuickExit" =>
                  /\ "SIGINT" \in signalled'
                  /\ \A w \in Workers :
                       wpc[w] \notin {"none", "dead"} => wExit'[w]
             /\ cmd = "TermExit" =>
                  /\ "SIGKILL" \in signalled'
                  /\ \A w \in Workers : wpc[w] # "none" => wpc'[w] = "dead"
             /\ cmd \notin ExitCommands \cup {"Ignore"} => rpc' = "awaitData"
    /\ (rpc = "awaitData" /\ rpc' # "awaitData") =>
         /\ Len(dataToR') = Len(dataToR) - 2
         /\ held' # NoPackage
         /\ rpc' = "dispatch"
    /\ IsPackageReceive =>
         /\ rpc = "awaitData"
         /\ lastCmd \notin ExitCommands \cup {"Ignore", "none"}

\* The pass of the request loop that follows an Ignore command.
AfterIgnore ==
    lastCmd = "Ignore" /\ rpc = "loop" /\ rpc' # "loop"

\* C21 as stated: after Ignore the Receiver pings again with no package
\* receive; Exit, QuickExit and TermExit end the request loop with no package
\* receive, after the interrupt signal or the kill signal was broadcast;
\* any other command is followed by the receive of exactly one package.
C21_IgnoreLeadsToPing ==
    [][ /\ CommandHandling
        /\ AfterIgnore => (~IsPackageReceive /\ rpc' = "ping")
      ]_vars

\* C21: as above, but the pass that follows Ignore pings again only when no
\* exit flag of the Receiver process is set; with one set it ends the
\* request loop, in both cases with no package receive.
C21_CommandHandling ==
    [][ /\ CommandHandling
        /\ AfterIgnore =>
             /\ ~IsPackageReceive
             /\ rpc' = IF Exit \/ QuickExit \/ TermExit
                       THEN "shutdown" ELSE "ping"
      ]_vars

\* Ignore was received while Exit was set, after a package had gone out.
C21_Witness ==
    /\ lastCmd = "Ignore"
    /\ rpc = "loop"
    /\ Exit
    /\ sent # {}

\* C22: a package is taken from the Data channel as exactly two messages,
\* the payload first and the number of elements second, with nothing sent on
\* the Control channel in the same stretch; the package the Receiver then
\* holds is that payload with that count, it is held unchanged until it is
\* written to a worker or dropped, and what is written to the worker is the
\* count and the payload held.
C22_TwoPartTransfer ==
    [][ /\ IsPackageReceive =>
             /\ Len(dataToR) >= 2
             /\ dataToR' = SubSeq(dataToR, 3, Len(dataToR))
             /\ ctrlToD' = ctrlToD
             /\ held = NoPackage
             /\ held' = [id |-> dataToR[1].id,
                         numElements |-> dataToR[2],
                         data |-> dataToR[1].data]
        /\ (held # NoPackage /\ held' # held) => held' = NoPackage
        /\ dispatched' # dispatched =>
             /\ held # NoPackage
             /\ dispatched' = dispatched \cup {held}
             /\ inbox'[target] = inbox[target] \o
                    <<commandToMessage("Continue"),
                      LEBytes(held.numElements, 8),
                      [id |-> held.id, data |-> held.data]>>
      ]_vars

\* The second package of the Distributor has been received and written to a
\* worker: one element, in a payload of the size the Distributor made.
C22_Witness ==
    /\ rpc = "loop"
    /\ \E p \in dispatched :
         /\ p.id = 2
         /\ p.numElements = 1
         /\ p.data.size > 0
         /\ p.data = workPackage.data

\* A worker takes a package out of its pipe.
IsWorkerTake(w) ==
    wpc[w] = "wait" /\ wpc'[w] = "proc"

\* C23: the worker chosen in dispatch is one whose status message read OK;
\* the package is written to it as the Continue command, the element count,
\* the payload; a worker that takes a package consumes a command other than
\* Ignore, then the count, then the payload; and a package a worker is
\* processing is, in numElements and payload, a package the Receiver held
\* and wrote to a worker.
C23_WorkerGetsHeldPackage ==
    [][ /\ (target' # target /\ target' # 0) =>
             /\ rpc = "getmsg"
             /\ outbox[target'] # << >>
             /\ messageToStatus(Head(outbox[target'])) = "OK"
        /\ (\E w \in Workers : inbox'[w] # inbox[w] /\ wpc'[w] = wpc[w]) =>
             /\ rpc = "send"
             /\ \A w \in Workers \ {target} : inbox'[w] = inbox[w]
             /\ Len(inbox'[target]) = Len(inbox[target]) + 3
             /\ LET n == Len(inbox[target])
                IN  /\ messageToCommand(inbox'[target][n + 1]) = "Continue"
                    /\ FromLEBytes(inbox'[target][n + 2]) = held.numElements
                    /\ inbox'[target][n + 3].data = held.data
        /\ \A w \in Workers :
             IsWorkerTake(w) =>
                /\ messageToCommand(inbox[w][1]) # "Ignore"
                /\ wpkg'[w].numElements = FromLEBytes(inbox[w][2])
                /\ wpkg'[w].data = inbox[w][3].data
                /\ inbox'[w] = SubSeq(inbox[w], 4, Len(inbox[w]))
        /\ \A w \in Workers :
             wpkg'[w] # NoPackage => wpkg'[w] \in dispatched'
      ]_vars

\* A worker is processing the second package, as the Receiver held it.
C23_Witness ==
    \E w \in Workers :
        /\ wpc[w] = "proc"
        /\ wpkg[w].id = 2
        /\ wpkg[w].numElements = 1
        /\ wpkg[w].data.size > 0
        /\ wpkg[w] \in dispatched

\* sendWorkPackage reads from worker w a status other than OK.
IsBadRead(w) ==
    badRead'[w] # badRead[w]

\* C24 as stated: a worker whose status read in dispatch is not OK is stopped
\* at once, and is never afterwards written a command or a package.
C24_BadWorkerStopped ==
    [][ \A w \in Workers :
          /\ IsBadRead(w) => stopRequested'[w]
          /\ badRead[w] # "none" =>
               (Len(inbox'[w]) <= Len(inbox[w]) /\ target' # w)
      ]_vars

\* C24: a worker whose status read in dispatch is Exit or Failed has
\* stopWorker called on it in that step, which requests the stop if it is
\* still marked working, and dispatch goes on with the package; a status
\* RequestJobTermination ends the dispatch with TerminateJob and stopWorker
\* is not called; in every case the worker is never afterwards chosen, nor
\* written a command or a package.
C24_BadWorkerExcluded ==
    [][ \A w \in Workers :
          /\ IsBadRead(w) =>
               /\ rpc = "getmsg"
               /\ inbox' = inbox
               /\ target' = target
               /\ badRead'[w] \in {"Exit", "Failed"} =>
                    /\ isWorking[w] => stopRequested'[w]
                    /\ \A v \in Workers \ {w} :
                         stopRequested'[v] = stopRequested[v]
                    /\ rpc' = "dispatch"
                    /\ held' = held
                    /\ ctrlToD' = ctrlToD
               /\ badRead'[w] = "RequestJobTermination" =>
                    /\ stopRequested' = stopRequested
                    /\ rpc' = "loop"
                    /\ held' = NoPackage
                    /\ ctrlToD' = Append(ctrlToD,
                          to_int_type(TaskStatus, "RequestJobTermination"))
          /\ badRead[w] # "none" =>
               (Len(inbox'[w]) <= Len(inbox[w]) /\ target' # w)
      ]_vars

\* Worker 1 reported Failed and was stopped; the second package went to
\* worker 2.
C24_Witness ==
    /\ Cardinality(Workers) = 2
    /\ badRead[1] = "Failed"
    /\ stopRequested[1]
    /\ wpkg[2].id = 2
    /\ Len(inbox[1]) = 0

\* C25: when sendWorkPackage finds no active worker, the package is written
\* to no worker and the Receiver is back in the request loop, having raised
\* nothing: no Failed status goes to the Distributor and the loop is not
\* left.
C25_NoWorkerReturnsToLoop ==
    [][ (rpc = "dispatch" /\ getNumActiveWorkers = 0 /\ rpc' # rpc) =>
          /\ sent' = sent
          /\ inbox' = inbox
          /\ rpc' = "loop"
          /\ ctrlToD' = ctrlToD
          /\ status' = status
      ]_vars

\* The positions of Receiver::shutdown, in the order of its code.
ShutdownPositions ==
    <<"shutdown", "stopping", "shutProc", "barrier", "done">>

\* The place of the Receiver in shutdown; 0 before shutdown is entered.
ShutdownStage ==
    IF \E i \in DOMAIN ShutdownPositions : ShutdownPositions[i] = rpc
    THEN CHOOSE i \in DOMAIN ShutdownPositions : ShutdownPositions[i] = rpc
    ELSE 0

\* C26: on every path through start(), shutdown, once entered, goes on to
\* stopping the workers or to performShutdown, and from there to the barrier
\* and the final status: it is never abandoned.
C26_ShutdownGoesOn ==
    [][ rpc = "shutdown" => rpc' \in {"shutdown", "stopping", "shutProc"} ]_vars

\* C26, the part the code keeps on every path where the logsheet was
\* opened: shutdown is entered once, from start() or from the end of the
\* request loop; its steps come in the order stop loop, performShutdown,
\* barrier, final status, none repeated; workers are asked to stop only in
\* the stop loop; the final status is sent once, after the barrier, and is
\* the status shutdown was called with; nothing is sent after it.
C26_ShutdownOrder ==
    [][ /\ (ShutdownStage = 0 /\ ShutdownStage' # 0) =>
             /\ ShutdownStage' = 1
             /\ finalStatus = "none"
        /\ (ShutdownStage # 0 /\ ~NoLogsheet) =>
             /\ ShutdownStage' >= ShutdownStage
             /\ shutStatus' = shutStatus
             /\ stopRequested' # stopRequested => rpc = "stopping"
             /\ rpc' = "barrier" => rpc \in {"shutProc", "barrier"}
             /\ ctrlToD' # ctrlToD =>
                  \/ Len(ctrlToD') < Len(ctrlToD)
                  \/ /\ rpc = "barrier"
                     /\ dBarrier
                     /\ finalStatus = "none"
                     /\ finalStatus' = shutStatus
                     /\ ctrlToD' = Append(ctrlToD,
                                          to_int_type(TaskStatus, shutStatus))
                     /\ rpc' = "done"
        /\ finalStatus # "none" => (finalStatus' = finalStatus /\ rpc' = "done")
      ]_vars

\* The request loop ended on an Exit command with the worker waiting; the
\* worker was stopped in the stop loop and the final status OK was sent.
C26_Witness ==
    /\ rpc = "done"
    /\ shutComm
    /\ \E w \in Workers : stopRequested[w]
    /\ finalStatus = "OK"
    /\ sent # {}

\* The worker is at the top of its loop after processWorkPackage raised:
\* taskStatus holds RequestJobTermination or Failed.
RaisedAtTop(w) ==
    wpc[w] = "top" /\ taskStatus[w] \in {"RequestJobTermination", "Failed"}

\* C27: a worker whose processor raised sends, as its next message and
\* before it leaves its loop, the status of what was raised
\* (RequestJobTermination for TerminateJob, Failed for another error),
\* whatever stop request or exit flag has reached it; only a kill ends it
\* without the report.
C27_RaisedStatusReported ==
    [][ \A w \in Workers :
          (RaisedAtTop(w) /\ wpc'[w] \notin {"top", "dead"}) =>
             outbox'[w] = Append(outbox[w], statusToMessage(taskStatus[w]))
      ]_vars

\* C27, the part the code keeps: a worker whose processor raised leaves the
\* top of its loop, unless killed, by sending one status: the status of what
\* was raised when no exit flag is set in the worker process, and Exit when
\* one is; it ends its loop with that message.
C27_RaisedThenOneReport ==
    [][ \A w \in Workers :
          (RaisedAtTop(w) /\ wpc'[w] \notin {"top", "dead"}) =>
             /\ wpc'[w] = "exited"
             /\ outbox'[w] = Append(outbox[w],
                   statusToMessage(IF wExit[w] THEN "Exit"
                                   ELSE taskStatus[w]))
      ]_vars

\* The processor of a worker asked for the termination of the job and the
\* worker has reported it to the Receiver.
C27_Witness ==
    \E w \in Workers :
        /\ termPkg # 0
        /\ wpc[w] = "exited"
        /\ wNonOK[w] = <<"RequestJobTermination">>

\* C28: a worker sends at most one status other than OK, and having sent it
\* the worker is out of its loop: it sends nothing more, takes nothing more
\* from the Receiver and holds no further package.
C28_OneBadStatusThenOut ==
    [][ \A w \in Workers :
          Len(wNonOK'[w]) >= 1 =>
             /\ Len(wNonOK'[w]) = 1
             /\ wpc'[w] \in {"exited", "dead"}
             /\ Len(wNonOK[w]) >= 1 =>
                   /\ Len(outbox'[w]) <= Len(outbox[w])
                   /\ Len(inbox'[w]) >= Len(inbox[w])
                   /\ wpkg'[w] = wpkg[w]
                   /\ taskStatus'[w] = taskStatus[w]
      ]_vars

\* A worker has reported Failed, has ended its loop and has been reaped.
C28_Witness ==
    \E w \in Workers :
        /\ wNonOK[w] = <<"Failed">>
        /\ wpc[w] = "exited"
        /\ ~isWorking[w]

\* The worker is at the top of its loop with an exit flag set in its process
\* and a status that is still OK.
FlaggedAtTop(w) ==
    wpc[w] = "top" /\ wExit[w] /\ taskStatus[w] = "OK"

\* C29: a worker that begins an iteration with an exit flag set, and that
\* would have reported OK, sends Exit if it sends anything, ends its loop with
\* that iteration, and once out of the loop takes no package.
C29_FlagTurnsOKIntoExit ==
    [][ \A w \in Workers :
          /\ (FlaggedAtTop(w) /\ wpc'[w] \notin {"top", "dead"}) =>
                /\ wpc'[w] = "exited"
                /\ outbox'[w] # outbox[w] =>
                      outbox'[w] = Append(outbox[w], statusToMessage("Exit"))
          /\ wpc[w] = "exited" =>
                /\ wpkg'[w] = wpkg[w]
                /\ Len(inbox'[w]) >= Len(inbox[w])
      ]_vars

\* A worker that was never given a package, so that its status was OK, has
\* reported Exit under an exit flag and has ended its loop.
C29_Witness ==
    \E w \in Workers :
        /\ dispatched = {}
        /\ wExit[w]
        /\ wNonOK[w] = <<"Exit">>
        /\ wpc[w] = "exited"


(***************************************************************************)
(* The worker's wait for a command.  The Receiver, the Distributor and     *)
(* every worker are processes of their own that keep running; signals are  *)
(* sent by the environment and need never arrive.                          *)
(***************************************************************************)
ReceiverStep ==
    \/ R_Start \/ R_RecvFlag \/ R_Init \/ R_LoopTop \/ R_Ping \/ R_RecvCmd
    \/ R_RecvPackage \/ R_DispatchTop \/ R_GetMessage \/ R_Send
    \/ R_Shutdown \/ R_StopWorker \/ R_Barrier \/ R_Final

DistributorStep ==
    D_SendFlag \/ D_Startup \/ D_Serve \/ D_OutOfBand \/ D_Barrier \/ D_Final

WorkerStep(w) ==
    \/ W_Begin(w) \/ W_Report(w) \/ W_WaitFail(w) \/ W_Take(w)
    \/ W_Process(w) \/ Reap(w)

\* A job of one Receiver in which no process that can take a step is held
\* back for ever.
SpecJobFair ==
    /\ SpecJob
    /\ WF_vars(ReceiverStep)
    /\ WF_vars(DistributorStep)
    /\ \A w \in 1..NumWorkers : WF_vars(WorkerStep(w))

\* The worker waits for a command in waitForMessage.
Waiting(w) ==
    wpc[w] = "wait"

\* The wait of the worker has been cut short: it was told to stop, or a
\* signal has set an exit flag in its process.
WaitCut(w) ==
    stopRequested[w] \/ wExit[w]

IsOOBReceive ==
    oob # << >> /\ oob' = Tail(oob)

\* C31: no step clears an exit flag of the Receiver process, of a worker
\* process or of the Distributor, and taking an out-of-band QuickExit or
\* TermExit command sets the flag of that name and changes no other.
C31_FlagsMonotonic ==
    [][ /\ Exit => Exit'
        /\ QuickExit => QuickExit'
        /\ TermExit => TermExit'
        /\ \A w \in Workers : wExit[w] => wExit'[w]
        /\ dExit # "none" => dExit' = dExit
        /\ IsOOBReceive =>
              LET cmd == to_enum(TaskCommand, Head(oob))
              IN  /\ QuickExit' = (QuickExit \/ cmd = "QuickExit")
                  /\ TermExit' = (TermExit \/ cmd = "TermExit")
                  /\ Exit' = Exit
                  /\ wExit' = wExit
      ]_vars

\* The Receiver has taken the out-of-band TermExit of the Distributor and
\* has QuickExit set as well: both flags are set.
C31_Witness ==
    /\ QuickExit
    /\ TermExit
    /\ dExit = "TermExit"
    /\ oob = << >>
    /\ <<"OOB", "Term", "Exit", "received">> \in rlog


\* The Receiver is in the stop loop of shutdown, waiting for a worker that
\* is still at work.
BlockedInShutdown ==
    rpc = "stopping" /\ Ready = {} /\ ~NoSender

\* The Receiver is in a wait that ends only when another process acts: for
\* the command of the Distributor, for the two messages of a package, or,
\* in shutdown, for the next message of a worker.
ReceiverBlocked ==
    \/ rpc = "awaitCmd" /\ ctrlToR = << >>
    \/ rpc = "awaitData" /\ Len(dataToR) < 2
    \/ BlockedInShutdown

\* C32 as stated: the Receiver never waits with an out-of-band message of
\* the Distributor left unread.
C32_NoUnreadWhileBlocked ==
    ReceiverBlocked => oob = << >>

\* C32, the part the code keeps: the wait for a worker's request in
\* sendWorkPackage is entered only from the top of its loop, where a pending
\* out-of-band message is taken.
C32_DispatchPollsOOB ==
    [][ (rpc # "getmsg" /\ rpc' = "getmsg") =>
           /\ rpc = "dispatch"
           /\ oob = << >>
      ]_vars

\* An out-of-band QuickExit was taken at the top of sendWorkPackage, which
\* has returned to the request loop without sending the package.
C32_Witness ==
    /\ <<"OOB", "Quick", "Exit", "received">> \in rlog
    /\ rpc = "loop"
    /\ QuickExit
    /\ oob = << >>
    /\ held = NoPackage
    /\ ~Exit /\ ~TermExit


\* The Distributor answers a request for a package with a command other
\* than Ignore.
DistributorDecides ==
    /\ D_Serve
    /\ ctrlToR' # ctrlToR
    /\ ctrlToR' # Append(ctrlToR, to_int_type(TaskCommand, "Ignore"))

\* A job in which every process keeps running and the Distributor does not
\* answer Ignore for ever.
SpecJobLive ==
    /\ SpecJobFair
    /\ SF_vars(DistributorDecides)

\* C33 as stated: every run of Receiver::start sends its final status.
C33_StartSendsFinal ==
    <>(finalStatus # "none")

\* C33, the part the code keeps: once the logsheet is open, Receiver::start
\* gets to send its final status.
C33_OpenedStartSendsFinal ==
    (rpc = "awaitFlag") ~> (finalStatus # "none")

\* The workers were killed and Receiver::start has sent its final status.
C33_Witness ==
    /\ "SIGKILL" \in signalled
    /\ \E w \in Workers : wpc[w] = "dead"
    /\ rpc = "done"
    /\ finalStatus # "none"


(***************************************************************************)
(* The ForkManager on its own: worker slots that are started, reaped,      *)
(* reset and started again, with the SIGCHLD handler (ForkManager::reap)   *)
(* running between any two steps of the main thread.                       *)
(***************************************************************************)
\* setNotWorking marking whatever worker is working, whose ever the PID.
WorkersWithPID_Any(pid) ==
    {s \in Slots : wcStatus[s].isWorking}

\* getProcessWithPID: the running workers recorded with this PID.
WorkersWithPID(pid) ==
    {s \in Slots : wcStatus[s].isWorking /\ wcStatus[s].pid = pid}

\* startWorker, first half: the worker must not be working (ObjectExists
\* otherwise) and, having worked, must have been reset; fork() makes a child
\* with a process ID that is free.
F_Fork(s) ==
    /\ forking = NoFork
    /\ ~wcStatus[s].isWorking
    /\ ~everWorked[s]
    /\ forks < MaxForks
    /\ \E p \in Pids :
        /\ procs[p].state = "free"
        /\ procs' = [procs EXCEPT ![p] = [state |-> "running",
                                           fork |-> forks + 1]]
        /\ forking' = [slot |-> s, pid |-> p]
    /\ forks' = forks + 1
    /\ slotFork' = [slotFork EXCEPT ![s] = forks + 1]
    /\ forkSlot' = [forkSlot EXCEPT ![forks + 1] = s]
    /\ UNCHANGED <<wcStatus, everWorked, lateReap>>

\* startWorker, second half, in the parent: the Status of the worker gets the
\* PID of the child and isWorking.
F_Record ==
    /\ forking # NoFork
    /\ wcStatus' = [wcStatus EXCEPT ![forking.slot] =
                       [pid |-> forking.pid, isWorking |-> TRUE]]
    /\ everWorked' = [everWorked EXCEPT ![forking.slot] = TRUE]
    /\ forking' = NoFork
    /\ UNCHANGED <<procs, forks, slotFork, forkSlot, lateReap>>

\* ForkWorkerController::reset: a worker that is not working any more is
\* made ready to be started again (ObjectExists while it is working).
F_Reset(s) ==
    /\ forking = NoFork
    /\ everWorked[s]
    /\ ~wcStatus[s].isWorking
    /\ everWorked' = [everWorked EXCEPT ![s] = FALSE]
    /\ UNCHANGED <<wcStatus, procs, forking, forks, slotFork, forkSlot,
                   lateReap>>

\* ForkManager::markAllFinished: setNotWorking for every PID the manager
\* knows, whatever has become of the processes.
F_MarkAllFinished ==
    /\ forking = NoFork
    /\ \E s \in Slots : wcStatus[s].isWorking
    /\ wcStatus' = [s \in Slots |-> [wcStatus[s] EXCEPT !.isWorking = FALSE]]
    /\ UNCHANGED <<everWorked, procs, forking, forks, slotFork, forkSlot,
                   lateReap>>

\* A child process ends, by itself or on a signal: it is a zombie until the
\* parent waits for it.
F_Exit(p) ==
    /\ procs[p].state = "running"
    /\ procs' = [procs EXCEPT ![p].state = "zombie"]
    /\ UNCHANGED <<wcStatus, everWorked, forking, forks, slotFork, forkSlot,
                   lateReap>>

\* ForkManager::reap, the SIGCHLD handler: a zombie is waited for, which
\* frees its process ID, and setNotWorking clears isWorking of the worker
\* found for that PID (with none found, ObjectDoesNotExist, nothing changes).
F_Reap(p) ==
    /\ procs[p].state = "zombie"
    /\ procs' = [procs EXCEPT ![p] = [state |-> "free", fork |-> 0]]
    /\ IF WorkersWithPID(p) = {}
       THEN UNCHANGED wcStatus
       ELSE \E s \in WorkersWithPID(p) :
               wcStatus' = [wcStatus EXCEPT ![s].isWorking = FALSE]
    /\ lateReap' = IF slotFork[forkSlot[procs[p].fork]] # procs[p].fork
                   THEN lateReap \cup {procs[p].fork} ELSE lateReap
    /\ UNCHANGED <<everWorked, forking, forks, slotFork, forkSlot>>

InitFork ==
    /\ storeCount = 0
    /\ chunkSize = 1
    /\ includeValues = FALSE
    /\ InitDistributor
    /\ InitReceiver

NextFork ==
    \/ \E s \in Slots : F_Fork(s) /\ UNCHANGED <<distVars, recvVars>>
    \/ F_Record /\ UNCHANGED <<distVars, recvVars>>
    \/ \E s \in Slots : F_Reset(s) /\ UNCHANGED <<distVars, recvVars>>
    \/ F_MarkAllFinished /\ UNCHANGED <<distVars, recvVars>>
    \/ \E p \in Pids : F_Exit(p) /\ UNCHANGED <<distVars, recvVars>>
    \/ \E p \in Pids : F_Reap(p) /\ UNCHANGED <<distVars, recvVars>>

\* A ForkManager whose worker slots are started, reaped and reused.
SpecFork ==
    InitFork /\ [][NextFork]_vars

\* The SIGCHLD handler reaps the process that fork f made.
ReapOf(f) ==
    \E p \in Pids :
        /\ procs[p].state = "zombie"
        /\ procs[p].fork = f
        /\ procs'[p].state = "free"

\* C34: the reap handler never sets isWorking, and reaping a process that a
\* slot was started with before never clears isWorking of the worker the
\* slot has been started with since.
C34_ReapSparesFreshWorker ==
    [][ \A f \in 1..MaxForks :
          ReapOf(f) =>
             /\ \A s \in Slots :
                   wcStatus'[s].isWorking => wcStatus[s].isWorking
             /\ \A s \in Slots :
                   (forkSlot[f] = s /\ slotFork[s] # f) =>
                      wcStatus'[s] = wcStatus[s]
      ]_vars

\* A slot was started again while the process of its earlier worker still
\* existed; that process has been reaped since, and the later worker is
\* marked as working and its process runs.
C34_Witness ==
    \E f \in lateReap :
        LET s == forkSlot[f]
        IN  /\ slotFork[s] > f
            /\ wcStatus[s].isWorking
            /\ procs[wcStatus[s].pid] =
                   [state |-> "running", fork |-> slotFork[s]]


\* The target count of a createWorkPackage call made in the current state.
TargetCount ==
    IF recordsRemaining > chunkSize THEN chunkSize ELSE recordsRemaining

\* C35: a createWorkPackage call made with records remaining takes
\* min(remaining, chunkSize) as its target, leaves the counter lower by
\* exactly the target (without wrapping) whatever number of its reads
\* succeed, and attempts exactly that many reads: its successful and its
\* failed reads add up to the target.
C35_TargetSubtractedOnce ==
    [][(IsCreateStep /\ recordsRemaining > 0) =>
         /\ distOp'.keyCount = TargetCount
         /\ recordsRemaining' = recordsRemaining - TargetCount
         /\ (okReads' - okReads) + (failures' - failures) = TargetCount
      ]_vars

\* The first package of a run had a target of two keys, one of its two reads
\* failed, and the counter is lower by two.
C35_Witness ==
    /\ distOp.op = "createWorkPackage"
    /\ calls = 1
    /\ ~restored
    /\ distOp.keyCount = 2
    /\ workPackage.numElements = 1
    /\ failures = 1
    /\ recordsRemaining = storeCount - 2


\* The step writes to the pipe of worker w.
WritesTo(w) ==
    Len(inbox'[w]) > Len(inbox[w])

\* The step is worker w receiving a package.
Receives(w) ==
    wpkg'[w] # wpkg[w] /\ wpkg'[w] # NoPackage

InDispatch ==
    rpc \in {"dispatch", "getmsg", "send"}

\* The step ends the sendWorkPackage call without the package having gone
\* out: no active worker remains, QuickExit or TermExit is set, a worker
\* asks for the job to be terminated, or the selected worker has ended.
DispatchGivenUp ==
    \/ rpc = "dispatch" /\ getNumActiveWorkers = 0
    \/ rpc = "dispatch" /\ (QuickExit' \/ TermExit')
    \/ /\ rpc = "getmsg"
       /\ \E w \in Ready :
            /\ outbox'[w] = Tail(outbox[w])
            /\ messageToStatus(Head(outbox[w])) = "RequestJobTermination"
    \/ rpc = "send" /\ wpc[target] \in {"exited", "dead"}

\* C37 as stated: once a status other than OK (and other than
\* RequestJobTermination) was read with a package held, the Receiver keeps
\* that package until it writes it to a worker.
C37_RetriedPackageNotDropped ==
    [][(retry # 0 /\ held' # held) =>
         /\ held.id \in sent'
         /\ WritesTo(target)
      ]_vars

\* C37, amended: once a status other than OK (and other than
\* RequestJobTermination) was read with a package held, that package stays
\* the one held for as long as the call goes on; nothing is taken from the
\* Data channel and no OK status is sent to the Distributor meanwhile; the
\* next worker whose status is OK is selected with the package still held
\* and is written that package; and the package is given up only when the
\* call ends for want of an active worker, on QuickExit or TermExit, on a
\* RequestJobTermination status, or because the selected worker has ended.
C37_RetriedPackageStaysPending ==
    [][retry # 0 =>
         /\ held # NoPackage
         /\ held.id = retry
         /\ InDispatch
         /\ Len(dataToR') >= Len(dataToR)
         /\ Len(ctrlToD') > Len(ctrlToD) =>
              /\ DispatchGivenUp
              /\ to_enum(TaskStatus, ctrlToD'[Len(ctrlToD')]) # "OK"
         /\ (rpc = "getmsg" /\ rpc' = "send") =>
              /\ held' = held
              /\ target' \in Ready
              /\ messageToStatus(Head(outbox[target'])) = "OK"
         /\ held' # held =>
              \/ /\ rpc = "send"
                 /\ held.id \in sent'
                 /\ inbox'[target] = inbox[target] \o PackageMessages(held)
              \/ DispatchGivenUp
      ]_vars

\* One worker's Failed or Exit status was read while a package was held, and
\* the other worker, whose status was OK, has been selected for that package.
C37_Witness ==
    /\ rpc = "send"
    /\ retry # 0
    /\ held.id = retry
    /\ \E w \in Workers :
         /\ w # target
         /\ badRead[w] \in {"Exit", "Failed"}
         /\ badRead[target] = "none"
    /\ wpc[target] = "wait"


\* The number of keys at or after the record-store cursor.
KeysFromCursor ==
    storeCount - NextRead + 1

\* C38: in every state of a Distributor run, the number of keys at or after
\* the record-store cursor equals the remaining-record counter.
C38_CursorMatchesRemaining ==
    KeysFromCursor = recordsRemaining


\* C38, as far as it holds: while no read of the run has failed and no
\* checkpoint has been restored in it, the number of keys at or after the
\* cursor equals the remaining-record counter.
C38_MatchesWithoutFailureOrRestore ==
    (failures = 0 /\ ~restored) => KeysFromCursor = recordsRemaining

\* A run without failed reads and without a restore has distributed a first
\* package and has the rest of the store, one key or more, before the cursor.
C38_Witness ==
    /\ distOp.op = "createWorkPackage"
    /\ calls = 1
    /\ failures = 0
    /\ ~restored
    /\ cursorState = "NEXT"
    /\ recordsRemaining > 0
    /\ KeysFromCursor = recordsRemaining


\* A step that is one checkpointRestore call which raised.
IsRestoreRaise ==
    IsRestoreCall /\ distOp'.raised

\* C39: a checkpointRestore call that raises leaves the record-store cursor
\* and the remaining-record counter as they were before the call.
C39_RaiseLeavesState ==
    [][IsRestoreRaise =>
         /\ cursorState' = cursorState
         /\ cursorPos' = cursorPos
         /\ recordsRemaining' = recordsRemaining
      ]_vars

\* C39, as far as it holds: a checkpointRestore call that raises leaves the
\* remaining-record counter and lastDistributedKey as they were, and leaves
\* the cursor as it was when it raises before the cursor is set (no
\* checkpoint, or a Last Key that is not in the store).
C39_RaiseLeavesCounter ==
    [][IsRestoreRaise =>
         /\ recordsRemaining' = recordsRemaining
         /\ lastDistributedKey' = lastDistributedKey
         /\ (~chk.present \/ PositionOf(chk.lastKey) = 0) =>
              (cursorState' = cursorState /\ cursorPos' = cursorPos)
      ]_vars

\* A checkpointRestore call raised after the cursor had been set at the
\* checkpoint's Last Key, in a run that had distributed packages.
C39_Witness ==
    /\ distOp.op = "checkpointRestore"
    /\ distOp.raised
    /\ chk.present
    /\ PositionOf(chk.lastKey) # 0
    /\ calls > 0
    /\ failures > 0
    /\ InRange


\* C40: in every state of a Distributor run the remaining-record counter
\* lies between 0 and the record count of the store.
C40_CounterWithinStore ==
    recordsRemaining \in 0..storeCount

\* C40, as far as it holds: the counter leaves the range 0..record count
\* only in a checkpointRestore call whose checkpoint records more keys than
\* remain, and then by wrapping round; a createWorkPackage call never takes
\* it out of the range, nor does a restore whose checkpoint records no more
\* keys than remain.
C40_WrapsOnlyInRestore ==
    [][/\ (InRange /\ ~InRange') =>
            /\ IsRestoreStep
            /\ chk.numKeys > recordsRemaining
            /\ recordsRemaining' =
                   CounterMod - (chk.numKeys - recordsRemaining)
       /\ (IsCreateStep /\ InRange) => recordsRemaining' <= recordsRemaining
       /\ (IsRestoreStep /\ InRange /\ chk.numKeys <= recordsRemaining) =>
            recordsRemaining' = recordsRemaining - chk.numKeys
      ]_vars

\* A checkpoint of one or more keys has been restored after packages of the
\* same run, and the counter has wrapped round.
C40_Witness ==
    /\ distOp.op = "checkpointRestore"
    /\ ~distOp.raised
    /\ calls > 0
    /\ chk.numKeys > 0
    /\ recordsRemaining > storeCount
    /\ recordsRemaining = CounterMod - chk.numKeys

====
